---- MODULE Spec2Model ----
(***************************************************************************)
(* Model of the agpypeline entry point harness (agpypeline/entrypoint.py): *)
(* the internal helper functions, and a run of do_work from the command    *)
(* line to the written result.                                             *)
(*                                                                         *)
(* Python values are tagged records, so that None, ints, strings, lists,   *)
(* tuples and dicts can be told apart and compared.  A modelled function   *)
(* returns an outcome: the exception that left it ("none" when it          *)
(* returned) and its return value.                                         *)
(***************************************************************************)
EXTENDS Integers, Sequences, FiniteSets, TLC

VARIABLES
    pc,         \* position of the do_work run
    config,     \* the Configuration's metadata_needed attribute (or Absent)
    algorithm,  \* the shape of the user's Algorithm instance
    argv,       \* the command line
    disk,       \* the metadata files named on the command line: path -> kind
    args,       \* the argparse.Namespace after parse_args
    md_results, \* do_work's md_results
    result,     \* do_work's result
    calls,      \* the methods of environment and algorithm invoked, in order
    loaded,     \* the metadata paths handed to load_metadata, in order
    stdout,     \* the values printed
    result_file,\* the content of <working_space>/result.json (NoFile if none)
    writes,     \* how many times result.json was opened for writing
    exit,       \* how the process ended
    workdir,    \* the working-space folder: "unknown", "present" or "absent"
    call        \* a direct call of one internal function and its outcome

vars == <<pc, config, algorithm, argv, disk, args, md_results, result, calls,
          loaded, stdout, result_file, writes, exit, workdir, call>>

runVars == <<pc, config, algorithm, argv, disk, args, md_results, result,
             calls, loaded, stdout, result_file, writes, exit, workdir>>

-----------------------------------------------------------------------------
(* Python values *)

PyNone == [t |-> "None"]
PyBool(b) == [t |-> "bool", b |-> b]
PyInt(i) == [t |-> "int", i |-> i]
PyStr(s) == [t |-> "str", s |-> s]
PyChars(c) == [t |-> "str", c |-> c]
PyList(e) == [t |-> "list", e |-> e]
PyTuple(e) == [t |-> "tuple", e |-> e]
PyDict(d) == [t |-> "dict", d |-> d]
Absent == [t |-> "absent"]

EmptyMap == [k \in {} |-> PyNone]
EmptyDict == PyDict(EmptyMap)

IsStr(v) == v.t = "str"
IsChars(v) == v.t = "str" /\ "c" \in DOMAIN v

\* bool(v)
Truthy(v) ==
    CASE v.t = "None" -> FALSE
      [] v.t = "bool" -> v.b
      [] v.t = "int" -> v.i # 0
      [] v.t = "str" -> IF "c" \in DOMAIN v THEN Len(v.c) > 0 ELSE v.s # ""
      [] v.t = "bytes" -> Len(v.c) > 0
      [] v.t = "list" -> Len(v.e) > 0
      [] v.t = "tuple" -> Len(v.e) > 0
      [] v.t = "dict" -> DOMAIN v.d # {}
      [] OTHER -> TRUE

\* str(v), for the values that get formatted into messages
StrOf(v) ==
    CASE v.t = "None" -> "None"
      [] v.t = "int" -> ToString(v.i)
      [] v.t = "bool" -> IF v.b THEN "True" ELSE "False"
      [] v.t = "str" /\ "s" \in DOMAIN v -> v.s
      [] OTHER -> "<object>"

HasKey(v, k) == k \in DOMAIN v.d

Ok(v) == [exc |-> "none", ret |-> v]
Raise(e) == [exc |-> e, ret |-> PyNone]

-----------------------------------------------------------------------------
(* __internal__.handle_error *)

handle_error_keeps_none(code, message) ==
    LET m == IF ~Truthy(message)
             THEN PyStr("An error has occurred with error code (" \o StrOf(code) \o ")")
             ELSE message
    IN  PyDict([error |-> m, code |-> code])

handle_error(code, message) ==
    LET c == IF code = PyNone THEN PyInt(-1) ELSE code
        m == IF ~Truthy(message)
             THEN PyStr("An error has occurred with error code (" \o StrOf(c) \o ")")
             ELSE message
    IN  PyDict([error |-> m, code |-> c])

-----------------------------------------------------------------------------
(* Metadata files *)

MaxMetadata == 2

\* A path is its root and its extension, as os.path.splitext splits it.
JsonPath == [name |-> "md", ext |-> ".json"]
YamlPath == [name |-> "md", ext |-> ".yaml"]
Paths == {JsonPath, YamlPath}

PathStr(p) == p.name \o p.ext

\* What a metadata file holds:
\*   json_map  a JSON object (which is YAML too)
\*   yaml_map  a YAML mapping that is not JSON
\*   null      the text "null": both loaders give None
\*   empty     an empty file: json.load raises, yaml.safe_load gives None
\*   garbage   text neither loader accepts
\*   missing   no such file
\*   vanishes  a file that is there when the command line is parsed and gone
\*             when the metadata is loaded
DiskKinds == {"json_map", "yaml_map", "null", "empty", "garbage", "missing"}
RunKinds == {"json_map", "garbage", "missing", "vanishes"}

OpenableAtParse(kind) == kind # "missing"
ExistsAtLoad(kind) == kind \notin {"missing", "vanishes"}

\* The value a successful load of the file gives.
ContentOf(p, kind) ==
    PyDict([source |-> PyStr(PathStr(p)), format |-> PyStr(kind)])

\* json.load / yaml.safe_load on the opened file: a value, or "raise".
LoaderResult(p, kind) ==
    LET yaml == p.ext \in {".yml", ".yaml"}
    IN  CASE ~ExistsAtLoad(kind) -> Raise("FileNotFoundError")
          [] kind = "json_map" -> Ok(ContentOf(p, kind))
          [] kind = "yaml_map" -> IF yaml THEN Ok(ContentOf(p, kind))
                                  ELSE Raise("JSONDecodeError")
          [] kind = "null" -> Ok(PyNone)
          [] kind = "empty" -> IF yaml THEN Ok(PyNone) ELSE Raise("JSONDecodeError")
          [] OTHER -> IF yaml THEN Raise("YAMLError") ELSE Raise("JSONDecodeError")

\* __internal__.load_metadata
load_metadata(p, kind) ==
    LET md_load == LoaderResult(p, kind)
    IN  IF md_load.exc # "none"
        THEN PyDict([error |-> PyStr("Unable to load metadata file '" \o PathStr(p) \o "'")])
        ELSE IF md_load.ret # PyNone
             THEN PyDict([metadata |-> md_load.ret])
             ELSE PyDict([error |-> PyStr("Invalid JSON/YAML specified in metadata file \""
                                          \o PathStr(p) \o "\"")])

\* A metadata_files entry: a path string, or the open file argparse made of it.
MetadataItems == [obj : {"str", "file"}, path : Paths]

\* The loop of __internal__.load_metadata_files from entry i on, with the
\* list built so far and the paths handed to load_metadata so far.  Line 171
\* reads metadata_file.name after metadata_file was made the path string (or
\* was one all along), which raises AttributeError before handle_error runs.
RECURSIVE load_metadata_loop_prepend(_, _, _, _, _)
load_metadata_loop_prepend(files, d, i, metadata, seen) ==
    IF i > Len(files)
    THEN [exc |-> "none", ret |-> PyDict([metadata |-> PyList(metadata)]), loaded |-> seen]
    ELSE LET metadata_file == files[i].path
             md_loaded == load_metadata(metadata_file, d[metadata_file])
         IN  IF ~ExistsAtLoad(d[metadata_file])
             THEN [exc |-> "AttributeError", ret |-> PyNone, loaded |-> seen]
             ELSE IF HasKey(md_loaded, "metadata")
                  THEN load_metadata_loop_prepend(files, d, i + 1,
                                                  <<md_loaded.d.metadata>> \o metadata,
                                                  Append(seen, metadata_file))
                  ELSE [exc |-> "none",
                        ret |-> handle_error(PyInt(-3), md_loaded.d.error),
                        loaded |-> Append(seen, metadata_file)]

RECURSIVE load_metadata_loop(_, _, _, _, _)
load_metadata_loop(files, d, i, metadata, seen) ==
    IF i > Len(files)
    THEN [exc |-> "none", ret |-> PyDict([metadata |-> PyList(metadata)]), loaded |-> seen]
    ELSE LET metadata_file == files[i].path
             md_loaded == load_metadata(metadata_file, d[metadata_file])
         IN  IF ~ExistsAtLoad(d[metadata_file])
             THEN [exc |-> "AttributeError", ret |-> PyNone, loaded |-> seen]
             ELSE IF HasKey(md_loaded, "metadata")
                  THEN load_metadata_loop(files, d, i + 1,
                                          Append(metadata, md_loaded.d.metadata),
                                          Append(seen, metadata_file))
                  ELSE [exc |-> "none",
                        ret |-> handle_error(PyInt(-3), md_loaded.d.error),
                        loaded |-> Append(seen, metadata_file)]

load_metadata_files(files, d) == load_metadata_loop(files, d, 1, <<>>, <<>>)

-----------------------------------------------------------------------------
(* __internal__.check_params_result_error *)

check_params_result_error_truthy_code(transformer_params) ==
    IF HasKey(transformer_params, "code") /\ Truthy(transformer_params.d.code)
    THEN LET error == IF HasKey(transformer_params, "error")
                      THEN transformer_params.d.error
                      ELSE PyStr("Error returned from get_transformer_params with code: "
                                 \o StrOf(transformer_params.d.code))
         IN  handle_error(PyInt(-104), error)
    ELSE PyNone

check_params_result_error(transformer_params) ==
    IF HasKey(transformer_params, "code")
    THEN LET error == IF HasKey(transformer_params, "error")
                      THEN transformer_params.d.error
                      ELSE PyStr("Error returned from get_transformer_params with code: "
                                 \o StrOf(transformer_params.d.code))
         IN  handle_error(PyInt(-104), error)
    ELSE PyNone

-----------------------------------------------------------------------------
(* Strings that the code inspects, as sequences of characters *)

UpperCase == <<"A", "B", "C", "D", "E", "F", "G", "H", "I", "J", "K", "L", "M",
               "N", "O", "P", "Q", "R", "S", "T", "U", "V", "W", "X", "Y", "Z">>
LowerCase == <<"a", "b", "c", "d", "e", "f", "g", "h", "i", "j", "k", "l", "m",
               "n", "o", "p", "q", "r", "s", "t", "u", "v", "w", "x", "y", "z">>
Whitespace == {" ", "\t", "\n"}

LowerChar(ch) ==
    IF \E k \in 1..Len(UpperCase) : UpperCase[k] = ch
    THEN LowerCase[CHOOSE k \in 1..Len(UpperCase) : UpperCase[k] = ch]
    ELSE ch

\* str.lower
Lower(c) == [k \in 1..Len(c) |-> LowerChar(c[k])]

\* str.strip
RECURSIVE LStrip(_)
LStrip(c) == IF c # <<>> /\ Head(c) \in Whitespace THEN LStrip(Tail(c)) ELSE c
RECURSIVE RStrip(_)
RStrip(c) ==
    IF c # <<>> /\ c[Len(c)] \in Whitespace THEN RStrip(SubSeq(c, 1, Len(c) - 1)) ELSE c
Strip(c) == RStrip(LStrip(c))

\* str.split(','): the pieces between the commas (one piece for no comma)
RECURSIVE SplitComma(_, _)
SplitComma(c, piece) ==
    IF c = <<>> THEN <<piece>>
    ELSE IF Head(c) = "," THEN <<piece>> \o SplitComma(Tail(c), <<>>)
         ELSE SplitComma(Tail(c), Append(piece, Head(c)))

\* Decimal digits: str(n) and int(s) for n >= 0
DigitChars == <<"0", "1", "2", "3", "4", "5", "6", "7", "8", "9">>
DigitValue(c) == CHOOSE d \in 0..9 : DigitChars[d + 1] = c
IsDigit(c) == \E d \in 0..9 : DigitChars[d + 1] = c

RECURSIVE DigitsOf(_)
DigitsOf(n) == IF n < 10 THEN <<DigitChars[n + 1]>>
               ELSE DigitsOf(n \div 10) \o <<DigitChars[(n % 10) + 1]>>

RECURSIVE ValueOfDigits(_, _)
ValueOfDigits(c, acc) ==
    IF c = <<>> THEN acc ELSE ValueOfDigits(Tail(c), 10 * acc + DigitValue(Head(c)))

\* s.replace(old, new) on a string kept as its sequence of characters: every
\* occurrence is replaced, left to right
RECURSIVE Replace(_, _, _)
Replace(c, old, new) ==
    IF Len(c) < Len(old) THEN c
    ELSE IF SubSeq(c, 1, Len(old)) = old
         THEN new \o Replace(SubSeq(c, Len(old) + 1, Len(c)), old, new)
         ELSE <<Head(c)>> \o Replace(Tail(c), old, new)

-----------------------------------------------------------------------------
(* __internal__.check_metadata_needed; its argument is the configuration's
   metadata_needed attribute, Absent when the class does not define it *)

check_metadata_needed_string_first(metadata_needed) ==
    IF metadata_needed = Absent THEN FALSE
    ELSE IF IsChars(metadata_needed)
         THEN Strip(Lower(metadata_needed.c)) = <<"t", "r", "u", "e">>
         ELSE Truthy(metadata_needed)

check_metadata_needed(metadata_needed) ==
    IF metadata_needed # Absent
    THEN IF Truthy(metadata_needed) THEN TRUE
         ELSE IF IsChars(metadata_needed)
                 /\ Strip(Lower(metadata_needed.c)) = <<"t", "r", "u", "e">>
              THEN TRUE
              ELSE FALSE
    ELSE FALSE

-----------------------------------------------------------------------------
(* JSON text *)

\* A value json cannot serialize (a set, a function, ...)
PyObject == [t |-> "object"]

RECURSIVE Serializable(_)
Serializable(v) ==
    CASE v.t \in {"None", "bool", "int", "str"} -> TRUE
      [] v.t \in {"list", "tuple"} -> \A k \in 1..Len(v.e) : Serializable(v.e[k])
      [] v.t = "dict" -> \A k \in DOMAIN v.d : Serializable(v.d[k])
      [] OTHER -> FALSE

\* What is left of a file opened for writing when json.dump raised
Truncated == [j |-> "truncated"]

\* json.dumps of the values a result is made of: the JSON text is kept as its
\* syntax tree.  A dict becomes an object, a list or tuple an array.
RECURSIVE JsonDump(_)
JsonDump(v) ==
    CASE v.t = "None" -> [j |-> "null"]
      [] v.t = "bool" -> [j |-> IF v.b THEN "true" ELSE "false"]
      [] v.t = "int" -> [j |-> "number", n |-> v.i]
      [] v.t = "str" -> [j |-> "string", v |-> v]
      [] v.t \in {"list", "tuple"} ->
            [j |-> "array", a |-> [k \in 1..Len(v.e) |-> JsonDump(v.e[k])]]
      [] v.t = "dict" ->
            [j |-> "object", o |-> [k \in DOMAIN v.d |-> JsonDump(v.d[k])]]

\* json.load of a JSON text
RECURSIVE JsonLoad(_)
JsonLoad(x) ==
    CASE x.j = "null" -> PyNone
      [] x.j = "true" -> PyBool(TRUE)
      [] x.j = "false" -> PyBool(FALSE)
      [] x.j = "number" -> PyInt(x.n)
      [] x.j = "string" -> x.v
      [] x.j = "array" -> PyList([k \in 1..Len(x.a) |-> JsonLoad(x.a[k])])
      [] x.j = "object" -> PyDict([k \in DOMAIN x.o |-> JsonLoad(x.o[k])])

-----------------------------------------------------------------------------
(* __internal__.handle_result *)

PRINT == <<"p", "r", "i", "n", "t">>
FILE == <<"f", "i", "l", "e">>
ALL == <<"a", "l", "l">>

type_parts(result_types) ==
    LET parts == SplitComma(result_types.c, <<>>)
    IN  {Strip(parts[k]) : k \in 1..Len(parts)}

\* The outcome of handle_result: what was printed, and what was written to
\* result_file_path.  makedirs and open stand for the file system's answers:
\* os.makedirs raising OSError or not (the OSError is caught and logged, and
\* the write goes ahead), and open() succeeding or raising.  json.dumps and
\* json.dump raise TypeError on a value that is not serializable; json.dump
\* does so after open() has truncated the file.
handle_result_skips_all(result_arg, result_types, result_file_path, makedirs, open) ==
    LET parts == IF result_types = PyNone THEN {} ELSE type_parts(result_types)
        to_print == PRINT \in parts
        to_file == FILE \in parts /\ Truthy(result_file_path)
        bad == ~Serializable(result_arg)
        exc == IF to_print /\ bad THEN "TypeError"
               ELSE IF to_file /\ ~open THEN "OSError"
               ELSE IF to_file /\ bad THEN "TypeError"
               ELSE "none"
    IN  [exc |-> exc,
         ret |-> IF exc = "none" THEN result_arg ELSE PyNone,
         printed |-> IF to_print /\ ~bad THEN <<JsonDump(result_arg)>> ELSE <<>>,
         written |-> IF to_file /\ open /\ ~(to_print /\ bad)
                     THEN <<IF bad THEN Truncated ELSE JsonDump(result_arg)>>
                     ELSE <<>>]

handle_result(result_arg, result_types, result_file_path, makedirs, open) ==
    LET parts == IF result_types = PyNone THEN {} ELSE type_parts(result_types)
        to_print == PRINT \in parts \/ ALL \in parts
        to_file == (FILE \in parts \/ ALL \in parts) /\ Truthy(result_file_path)
        bad == ~Serializable(result_arg)
        exc == IF to_print /\ bad THEN "TypeError"
               ELSE IF to_file /\ ~open THEN "OSError"
               ELSE IF to_file /\ bad THEN "TypeError"
               ELSE "none"
    IN  [exc |-> exc,
         ret |-> IF exc = "none" THEN result_arg ELSE PyNone,
         printed |-> IF to_print /\ ~bad THEN <<JsonDump(result_arg)>> ELSE <<>>,
         written |-> IF to_file /\ open /\ ~(to_print /\ bad)
                     THEN <<IF bad THEN Truncated ELSE JsonDump(result_arg)>>
                     ELSE <<>>]

-----------------------------------------------------------------------------
(* __internal__.perform_processing and the functions it calls *)

\* __internal__.check_retrieve_results_error
check_retrieve_results_error(transformer_retrieve) ==
    IF ~Truthy(transformer_retrieve) THEN PyNone
    ELSE LET retrieve_len == Len(transformer_retrieve.e)
             code == transformer_retrieve.e[1]
             message == IF retrieve_len > 1 THEN transformer_retrieve.e[2]
                        ELSE PyStr("Retrieving files returned a code of " \o StrOf(code))
         IN  IF code.i < 0 THEN handle_error(code, message) ELSE PyNone

\* __internal__.parse_continue_result: <<result_code, result_message>>, or the
\* TypeError of len() on a value that has no length
parse_continue_result(check_result) ==
    CASE check_result.t \in {"int", "bool"} -> Ok(<<check_result, PyNone>>)
      [] check_result.t = "str" -> Ok(<<PyNone, PyNone>>)
      [] check_result.t \in {"tuple", "list"} ->
            Ok(<<IF Len(check_result.e) > 0 THEN check_result.e[1] ELSE PyNone,
                 IF Len(check_result.e) > 1 THEN check_result.e[2] ELSE PyNone>>)
      [] OTHER -> Raise("TypeError")

\* __internal__.handle_check_continue, given the outcome of the algorithm's
\* check_continue (Absent when the algorithm has no such method)
handle_check_continue(check_continue) ==
    IF check_continue = Absent THEN Ok(EmptyDict)
    ELSE IF check_continue.exc # "none" THEN Raise(check_continue.exc)
    ELSE LET parsed == parse_continue_result(check_continue.ret)
         IN  IF parsed.exc # "none" THEN Raise(parsed.exc)
             ELSE LET result_code == parsed.ret[1]
                      result_message == parsed.ret[2]
                      with_code == IF Truthy(result_code)
                                   THEN [k \in {"code"} |-> result_code]
                                   ELSE EmptyMap
                      with_message == IF Truthy(result_message)
                                      THEN [k \in {"message"} |-> result_message]
                                      ELSE EmptyMap
                  IN  Ok(PyDict(with_code @@ with_message))

\* __internal__.handle_retrieve_files, given the outcome of the environment's
\* retrieve_files (Absent when the environment has no such method)
handle_retrieve_files(retrieve_files) ==
    IF retrieve_files = Absent THEN Ok(PyNone)
    ELSE IF retrieve_files.exc # "none" THEN Raise(retrieve_files.exc)
    ELSE Ok(check_retrieve_results_error(retrieve_files.ret))

\* The outcome of perform_processing and the methods it invoked, in order.
\* environment and algorithm give, for each method, Absent or its outcome.
Processed(exc, ret, invoked) == [exc |-> exc, ret |-> ret, calls |-> invoked]

perform_processing_tail_no_error(algorithm_instance, checked, invoked) ==
    IF checked.t # "dict" THEN Processed("TypeError", PyNone, invoked)
    ELSE IF HasKey(checked, "error") THEN Processed("none", checked, invoked)
    ELSE IF algorithm_instance.perform_process = Absent
         THEN Processed("none", checked, invoked)
         ELSE Processed(algorithm_instance.perform_process.exc,
                        algorithm_instance.perform_process.ret,
                        Append(invoked, "perform_process"))

\* The last step without its "if 'error' not in result": perform_process is
\* invoked whatever the check left in the result
perform_processing_tail_unguarded(algorithm_instance, checked, invoked) ==
    IF checked.t # "dict" THEN Processed("TypeError", PyNone, invoked)
    ELSE IF algorithm_instance.perform_process = Absent
         THEN Processed("none",
                        handle_error(PyInt(-102),
                                     PyStr("Transformer perform_process interface "
                                           \o "is not available for processing data")),
                        invoked)
         ELSE Processed(algorithm_instance.perform_process.exc,
                        algorithm_instance.perform_process.ret,
                        Append(invoked, "perform_process"))

perform_processing_tail(algorithm_instance, checked, invoked) ==
    \* from "Next make the call to perform the processing" on
    IF checked.t # "dict" THEN Processed("TypeError", PyNone, invoked)
    ELSE IF HasKey(checked, "error") THEN Processed("none", checked, invoked)
    ELSE IF algorithm_instance.perform_process = Absent
         THEN Processed("none",
                        handle_error(PyInt(-102),
                                     PyStr("Transformer perform_process interface "
                                           \o "is not available for processing data")),
                        invoked)
         ELSE Processed(algorithm_instance.perform_process.exc,
                        algorithm_instance.perform_process.ret,
                        Append(invoked, "perform_process"))

\* The check without line 295-296: a negative code gets no 'error' entry
perform_processing_check_no_error(environment_instance, algorithm_instance, invoked) ==
    LET checking == handle_check_continue(algorithm_instance.check_continue)
        invoked1 == IF algorithm_instance.check_continue = Absent THEN invoked
                    ELSE Append(invoked, "check_continue")
    IN  IF checking.exc # "none" THEN Processed(checking.exc, PyNone, invoked1)
        ELSE IF HasKey(checking.ret, "code") /\ checking.ret.d.code.t \notin {"int", "bool"}
             THEN Processed("TypeError", PyNone, invoked1)
             ELSE perform_processing_tail(algorithm_instance, checking.ret, invoked1)

perform_processing_check(environment_instance, algorithm_instance, invoked) ==
    \* from "First check if the transformer thinks everything is in place" on
    LET checking == handle_check_continue(algorithm_instance.check_continue)
        invoked1 == IF algorithm_instance.check_continue = Absent THEN invoked
                    ELSE Append(invoked, "check_continue")
    IN  IF checking.exc # "none" THEN Processed(checking.exc, PyNone, invoked1)
        ELSE LET r == checking.ret
                 bad_code == HasKey(r, "code") /\ r.d.code.t \notin {"int", "bool"}
                 negative == HasKey(r, "code") /\ r.d.code.t = "int" /\ r.d.code.i < 0
                 checked == IF negative /\ ~HasKey(r, "error")
                            THEN PyDict(r.d @@ [k \in {"error"} |->
                                     PyStr("Unknown error returned from check_continue call")])
                            ELSE r
                 retrieve == ~HasKey(checked, "error") /\ HasKey(checked, "code")
                             /\ checked.d.code = PyInt(0)
                 retrieved == handle_retrieve_files(environment_instance.retrieve_files)
                 invoked2 == IF retrieve /\ environment_instance.retrieve_files # Absent
                             THEN Append(invoked1, "retrieve_files") ELSE invoked1
             IN  IF bad_code THEN Processed("TypeError", PyNone, invoked1)
                 ELSE IF retrieve /\ retrieved.exc # "none"
                      THEN Processed(retrieved.exc, PyNone, invoked2)
                      ELSE perform_processing_tail(algorithm_instance,
                                                   IF retrieve THEN retrieved.ret ELSE checked,
                                                   invoked2)

perform_processing(environment_instance, algorithm_instance) ==
    LET params == environment_instance.get_transformer_params
    IN  IF params = Absent
        THEN perform_processing_check(environment_instance, algorithm_instance, <<>>)
        ELSE LET invoked == <<"get_transformer_params">>
             IN  IF params.exc # "none" THEN Processed(params.exc, PyNone, invoked)
                 ELSE IF params.ret.t # "dict"
                      THEN Processed("none",
                               handle_error(PyInt(-101),
                                   PyStr("Invalid return from getting transformer parameters "
                                         \o "from transformer class instance")),
                               invoked)
                      ELSE IF Truthy(check_params_result_error(params.ret))
                           THEN Processed("none", check_params_result_error(params.ret), invoked)
                           ELSE perform_processing_check(environment_instance,
                                                         algorithm_instance, invoked)

-----------------------------------------------------------------------------
(* environment.py: timestamps.  A text is its sequence of characters, a
   datetime.datetime the record of its fields *)

\* The running interpreter is Python 3.11 or later (TRUE), or 3.8 to 3.10
\* (setup.py: python_requires='>=3.8')
PythonVersions == BOOLEAN

\* datetime.datetime(year, ..., second), naive (aware FALSE) or with a fixed
\* UTC offset in minutes
datetime(year, month, day, hour, minute, second, aware, offset) ==
    [t |-> "datetime", year |-> year, month |-> month, day |-> day, hour |-> hour,
     minute |-> minute, second |-> second, aware |-> aware, offset |-> offset]

PyBytes(c) == [t |-> "bytes", c |-> c]

\* '%02d' and '%04d'
Pad2(n) == IF n < 10 THEN <<"0">> \o DigitsOf(n) ELSE DigitsOf(n)
Pad4(n) == LET d == DigitsOf(n) IN SubSeq(<<"0", "0", "0">>, 1, 4 - Len(d)) \o d

\* datetime.isoformat(): YYYY-MM-DDTHH:MM:SS, then +HH:MM when aware
isoformat(dt) ==
    Pad4(dt.year) \o <<"-">> \o Pad2(dt.month) \o <<"-">> \o Pad2(dt.day) \o <<"T">>
    \o Pad2(dt.hour) \o <<":">> \o Pad2(dt.minute) \o <<":">> \o Pad2(dt.second)
    \o (IF ~dt.aware THEN <<>>
        ELSE LET minutes == IF dt.offset < 0 THEN 0 - dt.offset ELSE dt.offset
             IN  <<IF dt.offset < 0 THEN "-" ELSE "+">>
                 \o Pad2(minutes \div 60) \o <<":">> \o Pad2(minutes % 60))

AllDigits(c) == \A k \in 1..Len(c) : IsDigit(c[k])

\* YYYY-MM-DD
DateShape(c) ==
    /\ Len(c) = 10
    /\ AllDigits(SubSeq(c, 1, 4)) /\ c[5] = "-"
    /\ AllDigits(SubSeq(c, 6, 7)) /\ c[8] = "-"
    /\ AllDigits(SubSeq(c, 9, 10))
    /\ ValueOfDigits(SubSeq(c, 6, 7), 0) \in 1..12
    /\ ValueOfDigits(SubSeq(c, 9, 10), 0) \in 1..31

\* HH:MM:SS
TimeShape(c) ==
    /\ Len(c) = 8
    /\ AllDigits(SubSeq(c, 1, 2)) /\ c[3] = ":"
    /\ AllDigits(SubSeq(c, 4, 5)) /\ c[6] = ":"
    /\ AllDigits(SubSeq(c, 7, 8))
    /\ ValueOfDigits(SubSeq(c, 1, 2), 0) < 24
    /\ ValueOfDigits(SubSeq(c, 4, 5), 0) < 60
    /\ ValueOfDigits(SubSeq(c, 7, 8), 0) < 60

\* The UTC offset after the time: +HH:MM for every interpreter, +HHMM and Z
\* from Python 3.11 on.  minutes is the offset, ok tells whether it parsed.
OffsetShape(c, py311) ==
    LET sign == IF c[1] = "-" THEN 0 - 1 ELSE 1
    IN  IF Len(c) = 6 /\ c[1] \in {"+", "-"} /\ AllDigits(SubSeq(c, 2, 3)) /\ c[4] = ":"
           /\ AllDigits(SubSeq(c, 5, 6))
        THEN [ok |-> TRUE, minutes |-> sign * (60 * ValueOfDigits(SubSeq(c, 2, 3), 0)
                                                + ValueOfDigits(SubSeq(c, 5, 6), 0))]
        ELSE IF py311 /\ Len(c) = 5 /\ c[1] \in {"+", "-"} /\ AllDigits(SubSeq(c, 2, 5))
        THEN [ok |-> TRUE, minutes |-> sign * (60 * ValueOfDigits(SubSeq(c, 2, 3), 0)
                                                + ValueOfDigits(SubSeq(c, 4, 5), 0))]
        ELSE IF py311 /\ c = <<"Z">>
        THEN [ok |-> TRUE, minutes |-> 0]
        ELSE [ok |-> FALSE, minutes |-> 0]

\* datetime.datetime.fromisoformat(c) for the shapes YYYY-MM-DD and
\* YYYY-MM-DD?HH:MM:SS[offset] (? any one character); a text of another shape,
\* such as a date written with colons, raises ValueError.  (Shorter times and
\* fractions of a second, which fromisoformat also reads, are left out.)
fromisoformat(c, py311) ==
    IF Len(c) < 10 \/ ~DateShape(SubSeq(c, 1, 10)) THEN Raise("ValueError")
    ELSE LET year == ValueOfDigits(SubSeq(c, 1, 4), 0)
             month == ValueOfDigits(SubSeq(c, 6, 7), 0)
             day == ValueOfDigits(SubSeq(c, 9, 10), 0)
         IN  IF Len(c) = 10 THEN Ok(datetime(year, month, day, 0, 0, 0, FALSE, 0))
             ELSE IF Len(c) < 19 \/ ~TimeShape(SubSeq(c, 12, 19)) THEN Raise("ValueError")
             ELSE LET hour == ValueOfDigits(SubSeq(c, 12, 13), 0)
                      minute == ValueOfDigits(SubSeq(c, 15, 16), 0)
                      second == ValueOfDigits(SubSeq(c, 18, 19), 0)
                      tz == SubSeq(c, 20, Len(c))
                  IN  IF tz = <<>>
                      THEN Ok(datetime(year, month, day, hour, minute, second, FALSE, 0))
                      ELSE IF OffsetShape(tz, py311).ok
                      THEN Ok(datetime(year, month, day, hour, minute, second, TRUE,
                                       OffsetShape(tz, py311).minutes))
                      ELSE Raise("ValueError")

\* The place of a datetime on the time line, in minutes (months counted as 31
\* days, which keeps the order of dates); the UTC offset is taken off.
Ordinal(dt) ==
    (((dt.year * 12 + dt.month) * 31 + dt.day) * 24 + dt.hour) * 60 + dt.minute - dt.offset

Before(a, b) ==
    \/ Ordinal(a) < Ordinal(b)
    \/ Ordinal(a) = Ordinal(b) /\ a.second < b.second

\* a < b: a naive and an aware datetime cannot be compared
LessThan(a, b) ==
    IF a.aware # b.aware THEN Raise("TypeError") ELSE Ok(PyBool(Before(a, b)))

\* EXIF tags (lines 13-15): the two offset names are the same tag
EXIF_ORIGIN_TIMESTAMP == 36867
EXIF_TIMESTAMP_OFFSET == 36881
EXIF_ORIGIN_TIMESTAMP_OFFSET == 36881

\* bytes.decode('UTF-8'): the character "\xff" stands for a byte that is not
\* UTF-8
Decode(value) ==
    IF \E k \in 1..Len(value.c) : value.c[k] = "\\xff"
    THEN Raise("UnicodeDecodeError") ELSE Ok(PyChars(value.c))

\* convert_and_clean_tag (lines 38-62): the stripped text, None when nothing
\* but colons, "+:" and dashes is left of it
clean_text(text) ==
    IF text = <<>>
         \/ Strip(Replace(Replace(Replace(text, <<":">>, <<>>), <<"+", ":">>, <<>>),
                          <<"-">>, <<>>)) = <<>>
    THEN Ok(PyNone) ELSE Ok(PyChars(text))

clean_decoded(decoded) ==
    IF decoded.exc # "none" THEN decoded ELSE clean_text(Strip(decoded.ret.c))

convert_and_clean_tag(value) ==
    IF ~Truthy(value) THEN Ok(PyNone)
    ELSE clean_decoded(IF value.t = "bytes" THEN Decode(value) ELSE Ok(value))

\* "if TAG in exif_tags: ... = convert_and_clean_tag(exif_tags[TAG])"
exif_tag(exif_tags, tag) ==
    IF tag \in DOMAIN exif_tags THEN convert_and_clean_tag(exif_tags[tag]) ELSE Ok(PyNone)

\* cur_offset after lines 70-73, given what the origin offset tag gave
exif_offset(exif_tags, origin_offset) ==
    IF origin_offset.exc = "none" /\ ~Truthy(origin_offset.ret)
    THEN exif_tag(exif_tags, EXIF_TIMESTAMP_OFFSET)
    ELSE origin_offset

\* "except Exception: cur_ts = None"
exif_parsed(cur_ts) == IF cur_ts.exc # "none" THEN Ok(PyNone) ELSE cur_ts

exif_stamp(cur_stamp, cur_offset, py311) ==
    IF cur_stamp.exc # "none" THEN cur_stamp
    ELSE IF ~Truthy(cur_stamp.ret) THEN Ok(PyNone)
    ELSE IF cur_offset.exc # "none" THEN cur_offset
    ELSE exif_parsed(fromisoformat(
             IF ~Truthy(cur_offset.ret) THEN cur_stamp.ret.c
             ELSE cur_stamp.ret.c \o Replace(cur_offset.ret.c, <<":">>, <<>>),
             py311))

\* __internal__.exif_tags_to_timestamp.  exif_tags maps tag numbers to values.
exif_tags_to_timestamp(exif_tags, py311) ==
    exif_stamp(exif_tag(exif_tags, EXIF_ORIGIN_TIMESTAMP),
               exif_offset(exif_tags, exif_tag(exif_tags, EXIF_ORIGIN_TIMESTAMP_OFFSET)),
               py311)

\* What piexif.load(file_path) finds: nothing it can read (it raises), or the
\* dict of the file's tag groups
Unreadable == [kind |-> "unreadable"]
ExifFile(exif_tags) == [kind |-> "image", Exif |-> exif_tags]

\* "cur_stamp if first_stamp is None or cur_stamp < first_stamp else
\* first_stamp"; a comparison that raises leaves first_stamp as it was
earlier_stamp(compared, cur_stamp, first_stamp) ==
    IF compared.exc # "none" THEN first_stamp
    ELSE IF compared.ret.b THEN cur_stamp ELSE first_stamp

\* first_stamp after the try block (lines 99-107)
first_stamp_of(cur_stamp, first_stamp) ==
    IF cur_stamp.exc # "none" \/ cur_stamp.ret = PyNone THEN first_stamp
    ELSE IF first_stamp = PyNone THEN cur_stamp.ret
    ELSE earlier_stamp(LessThan(cur_stamp.ret, first_stamp), cur_stamp.ret, first_stamp)

\* "if first_stamp: return first_stamp.isoformat()" / "return timestamp"
first_stamp_text(first_stamp, timestamp) ==
    IF first_stamp # PyNone THEN Ok(PyChars(isoformat(first_stamp))) ELSE Ok(timestamp)

get_first_timestamp_from(given, cur_stamp, timestamp) ==
    IF given.exc # "none" THEN given
    ELSE first_stamp_text(first_stamp_of(cur_stamp, given.ret), timestamp)

\* __internal__.get_first_timestamp.  file is what piexif.load finds at
\* file_path; timestamp is None or a text.
get_first_timestamp(file, timestamp, py311) ==
    get_first_timestamp_from(
        IF Truthy(timestamp) THEN fromisoformat(timestamp.c, py311) ELSE Ok(PyNone),
        IF file.kind = "image" THEN exif_tags_to_timestamp(file.Exif, py311)
        ELSE Raise("InvalidImageDataError"),
        timestamp)

-----------------------------------------------------------------------------
(* Environment.get_transformer_params, as do_work calls it: args.file_list
   holds the open files argparse.FileType made of the arguments *)

NOW == PyStr("<datetime.now>")

\* The loop over the metadata: <<timestamp, season, experiment, parsed>>
RECURSIVE parse_metadata_loop(_, _, _)
parse_metadata_loop(metadata, i, acc) ==
    IF i > Len(metadata) THEN acc
    ELSE LET one_metadata == metadata[i]
             content == IF HasKey(one_metadata, "content")
                        THEN one_metadata.d.content ELSE one_metadata
             parse_md == IF HasKey(content, "pipeline") THEN content.d.pipeline ELSE content
         IN  parse_metadata_loop(metadata, i + 1,
                 <<IF HasKey(parse_md, "observationTimeStamp")
                   THEN parse_md.d.observationTimeStamp ELSE acc[1],
                   IF HasKey(parse_md, "season") THEN parse_md.d.season ELSE acc[2],
                   IF HasKey(parse_md, "studyName") THEN parse_md.d.studyName ELSE acc[3],
                   Append(acc[4], parse_md)>>)

\* The body of the loop over args.file_list (lines 197-204) for one entry.
\* An entry is an open file (do_work's, made by argparse.FileType) or a path
\* with what piexif.load finds there.  acc holds working_timestamp, file_list
\* and the paths handed to get_first_timestamp so far.
file_list_checked(one_file, acc, first) ==
    [acc EXCEPT !.file_list = Append(@, PyChars(one_file.name)),
                !.exc = first.exc,
                !.working_timestamp = IF first.exc = "none" THEN first.ret ELSE @,
                !.consulted = IF first.exc = "none" THEN Append(@, one_file.name) ELSE @]

file_list_step(one_file, timestamp, acc, py311) ==
    \* one_file.startswith('-') on an open file: it has no such attribute
    IF one_file.obj = "file" THEN [acc EXCEPT !.exc = "AttributeError"]
    ELSE IF one_file.name # <<>> /\ Head(one_file.name) = "-" THEN acc
    ELSE IF timestamp # PyNone
    THEN [acc EXCEPT !.file_list = Append(@, PyChars(one_file.name))]
    ELSE file_list_checked(one_file, acc,
             get_first_timestamp(one_file.image, acc.working_timestamp, py311))

\* The loop from entry i on; an exception ends it
RECURSIVE file_list_loop(_, _, _, _, _)
file_list_loop(files, i, timestamp, acc, py311) ==
    IF i > Len(files) \/ acc.exc # "none" THEN acc
    ELSE file_list_loop(files, i + 1, timestamp,
                        file_list_step(files[i], timestamp, acc, py311), py311)

get_transformer_params_files(parsed_args, timestamp, py311) ==
    LET start == [exc |-> "none", working_timestamp |-> timestamp, file_list |-> <<>>,
                  consulted |-> <<>>]
    IN  IF Truthy(parsed_args.file_list)
        THEN file_list_loop(parsed_args.file_list.e, 1, timestamp, start, py311)
        ELSE start

\* "Prepare our parameters": md is what the metadata loop left, files what
\* the loop over the files left
prepare_parameters(parsed_args, md, files) ==
    IF files.exc # "none" THEN Raise(files.exc)
    ELSE Ok(PyDict([check_md |->
                        PyDict([timestamp |-> IF md[1] # PyNone THEN md[1]
                                              ELSE IF Truthy(files.working_timestamp)
                                              THEN files.working_timestamp ELSE NOW,
                                season |-> md[2],
                                experiment |-> md[3],
                                container_name |-> PyNone,
                                target_container_name |-> PyNone,
                                trigger_name |-> PyNone,
                                context_md |-> PyNone,
                                working_folder |-> parsed_args.working_space,
                                list_files |-> PyList(files.file_list)]),
                    transformer_md |-> PyList(<<>>),
                    full_md |-> PyList(md[4])]))

get_transformer_params_from(parsed_args, md, py311) ==
    prepare_parameters(parsed_args, md,
                       get_transformer_params_files(parsed_args, md[1], py311))

get_transformer_params(parsed_args, metadata, py311) ==
    get_transformer_params_from(
        parsed_args,
        parse_metadata_loop(metadata, 1,
            <<PyNone, PyStr("Season Unknown"), PyStr("Experiment Unknown"), <<>>>>),
        py311)

-----------------------------------------------------------------------------
(* The command line and add_parameters *)

\* add_parameters, line 383: parser.add_argument('file_list', nargs='*', ...)
file_list_nargs == "*"

\* add_parameters, line 365: --result, nargs='?', default='all'
result_default == PyChars(ALL)

\* add_parameters, line 371: --working_space, default='output'
working_space_default == PyStr("output")

RECURSIVE SeqsUpTo(_, _)
SeqsUpTo(S, n) ==
    IF n = 0 THEN {<<>>}
    ELSE LET shorter == SeqsUpTo(S, n - 1)
         IN  shorter \cup {Append(q, x) : q \in shorter, x \in S}

\* The input files named on the command line, and whether they can be opened.
PlotFile == [name |-> "plot.tif", there |-> TRUE]
GoneFile == [name |-> "gone.tif", there |-> FALSE]
FileLists == {<<>>, <<PlotFile>>, <<GoneFile>>}

\* --result: not given (Absent), given without a value (None), or a value
RunResults == {Absent, PyNone, PyChars(PRINT), PyChars(FILE)}

\* --working_space: not given, or a value
RunWorkingSpaces == {Absent, PyStr("")}

\* Configuration.metadata_needed
RunConfigs == {Absent, PyBool(TRUE), PyBool(FALSE),
               PyChars(<<"f", "a", "l", "s", "e">>)}

CommandLines ==
    [metadata : SeqsUpTo(Paths, MaxMetadata),
     file_list : FileLists,
     result : RunResults,
     working_space : RunWorkingSpaces]

\* The outcome of parser.parse_args(): the Namespace, or the message of
\* parser.error(), which ends the process with status 2.
parse_args_nargs(command, d, nargs) ==
    IF \E k \in 1..Len(command.metadata) : ~OpenableAtParse(d[command.metadata[k]])
    THEN Raise("argument -m/--metadata: can't open")
    ELSE IF \E k \in 1..Len(command.file_list) : ~command.file_list[k].there
    THEN Raise("argument file_list: can't open")
    ELSE IF command.file_list = <<>> /\ nargs = "+"
    THEN Raise("the following arguments are required: file_list")
    ELSE Ok([metadata |-> IF command.metadata = <<>> THEN PyNone
                          ELSE PyList([k \in 1..Len(command.metadata) |->
                                          [obj |-> "file", path |-> command.metadata[k]]]),
             file_list |-> PyList([k \in 1..Len(command.file_list) |->
                                      [obj |-> "file", name |-> command.file_list[k].name]]),
             result |-> IF command.result = Absent THEN result_default ELSE command.result,
             working_space |-> IF command.working_space = Absent
                               THEN working_space_default ELSE command.working_space])

parse_args(command, d) == parse_args_nargs(command, d, file_list_nargs)

-----------------------------------------------------------------------------
(* A run of do_work, started by entrypoint / begin_process *)

Running == [how |-> "running", exc |-> "none", status |-> 0]
Returned == [how |-> "returned", exc |-> "none", status |-> 0]
Raised(e) == [how |-> "raised", exc |-> e, status |-> 1]
SystemExit(msg) == [how |-> "SystemExit", exc |-> msg, status |-> 2]

Idle == [fn |-> "idle"]

\* What the user's Algorithm instance does when its methods are called; a
\* method it does not define is Absent.
Algorithms ==
    [check_continue : {Absent, Ok(PyInt(-1)), Ok(PyInt(0)),
                       Ok(PyTuple(<<PyInt(-2), PyStr("not ready")>>)),
                       Raise("RuntimeError")},
     perform_process : {Absent, Ok(PyDict([files |-> PyList(<<>>)])),
                        Ok(PyDict([files |-> PyObject])),
                        Raise("RuntimeError")}]

Init ==
    /\ pc = "parse_args"
    /\ config \in RunConfigs
    /\ argv \in CommandLines
    /\ disk \in [Paths -> RunKinds]
    /\ \A p \in Paths :
          (\A k \in 1..Len(argv.metadata) : argv.metadata[k] # p) => disk[p] = "missing"
    /\ algorithm = Absent
    /\ args = Absent
    /\ md_results = Absent
    /\ result = EmptyDict
    /\ calls = <<>>
    /\ loaded = <<>>
    /\ stdout = <<>>
    /\ result_file = Absent
    /\ writes = 0
    /\ exit = Running
    /\ workdir = "unknown"
    /\ call = Idle

\* Environment(...), add_parameters, parser.parse_args().  The Environment
\* instance is always true (the class defines neither __bool__ nor __len__),
\* so the -100 return of lines 401-403 is never taken.
ParseArgs ==
    /\ pc = "parse_args"
    /\ LET parsed == parse_args(argv, disk)
       IN  IF parsed.exc # "none"
           THEN /\ exit' = SystemExit(parsed.exc)
                /\ pc' = "done"
                /\ UNCHANGED args
           ELSE /\ args' = parsed.ret
                /\ pc' = "working_space"
                /\ UNCHANGED exit
    /\ UNCHANGED <<config, algorithm, argv, disk, md_results, result, calls, loaded,
                   stdout, result_file, writes, workdir, call>>

\* What handle_result did to the standard output and to result.json
HandleResultEffects(out) ==
    /\ stdout' = stdout \o out.printed
    /\ result_file' = IF out.written # <<>> THEN out.written[1] ELSE result_file
    /\ writes' = writes + Len(out.written)

\* The working space: left alone when it is a folder, made when it is not;
\* a failing os.makedirs ends the run with the -10 error.
do_work_working_space(parsed_args, folder) ==
    IF Truthy(parsed_args.working_space) /\ folder = "blocked"
    THEN [returns |-> TRUE,
          result |-> handle_error(PyInt(-10),
                         PyStr("Error while creating working space path \""
                               \o StrOf(parsed_args.working_space) \o "\""))]
    ELSE [returns |-> FALSE, result |-> EmptyDict]

WorkingSpace ==
    /\ pc = "working_space"
    /\ \E folder \in IF Truthy(args.working_space)
                     THEN {"isdir", "created", "blocked"} ELSE {"unused"} :
          LET step == do_work_working_space(args, folder)
              out == handle_result(step.result, PyNone, PyNone, TRUE, TRUE)
          IN  /\ workdir' = CASE folder = "unused" -> "unknown"
                              [] folder = "blocked" -> "absent"
                              [] OTHER -> "present"
              /\ IF step.returns
                 THEN /\ result' = step.result
                      /\ HandleResultEffects(out)
                      /\ exit' = Returned
                      /\ pc' = "done"
                 ELSE /\ pc' = "metadata"
                      /\ UNCHANGED <<result, stdout, result_file, writes, exit>>
    /\ UNCHANGED <<config, algorithm, argv, disk, args, md_results, calls, loaded, call>>

\* "Check that we have metadata": the outcome of lines 421-429
do_work_metadata_dropped(parsed_args, needed, d) ==
    IF Truthy(parsed_args.metadata)
    THEN LET md == load_metadata_files(parsed_args.metadata.e, d)
         IN  [exc |-> md.exc, md_results |-> md.ret, loaded |-> md.loaded,
              result |-> IF md.exc = "none" /\ ~HasKey(md.ret, "metadata")
                         THEN handle_error(PyInt(-3), md.ret.d.error) ELSE EmptyDict]
    ELSE [exc |-> "none", md_results |-> PyDict([metadata |-> PyList(<<>>)]),
          loaded |-> <<>>, result |-> EmptyDict]

do_work_metadata(parsed_args, needed, d) ==
    IF ~Truthy(parsed_args.metadata) /\ check_metadata_needed(needed)
    THEN [exc |-> "none", md_results |-> Absent, loaded |-> <<>>,
          result |-> handle_error(PyInt(-1), PyStr("No metadata paths were specified."))]
    ELSE IF Truthy(parsed_args.metadata)
    THEN LET md == load_metadata_files(parsed_args.metadata.e, d)
         IN  [exc |-> md.exc, md_results |-> md.ret, loaded |-> md.loaded,
              result |-> IF md.exc = "none" /\ ~HasKey(md.ret, "metadata")
                         THEN handle_error(PyInt(-3), md.ret.d.error) ELSE EmptyDict]
    ELSE [exc |-> "none", md_results |-> PyDict([metadata |-> PyList(<<>>)]),
          loaded |-> <<>>, result |-> EmptyDict]

CheckMetadata ==
    /\ pc = "metadata"
    /\ LET step == do_work_metadata(args, config, disk)
       IN  /\ loaded' = step.loaded
           /\ IF step.exc # "none"
              THEN /\ exit' = Raised(step.exc)
                   /\ pc' = "done"
                   /\ UNCHANGED <<md_results, result>>
              ELSE /\ md_results' = step.md_results
                   /\ result' = step.result
                   /\ pc' = IF Truthy(step.result) THEN "handle_result" ELSE "processing"
                   /\ UNCHANGED exit
    /\ UNCHANGED <<config, algorithm, argv, disk, args, calls, stdout, result_file,
                   writes, workdir, call>>

\* The Environment instance do_work creates: get_transformer_params is the
\* class's own, and the class defines no retrieve_files.
do_work_environment(parsed_args, metadata, py311) ==
    [get_transformer_params |-> get_transformer_params(parsed_args, metadata, py311),
     retrieve_files |-> Absent]

\* "if not result: result = perform_processing(...)"
Processing ==
    /\ pc = "processing"
    /\ \E alg \in Algorithms, py311 \in PythonVersions :
          LET out == perform_processing(
                         do_work_environment(args, md_results.d.metadata.e, py311), alg)
          IN  /\ algorithm' = alg
              /\ calls' = out.calls
              /\ IF out.exc # "none"
                 THEN /\ exit' = Raised(out.exc)
                      /\ pc' = "done"
                      /\ UNCHANGED result
                 ELSE /\ result' = out.ret
                      /\ pc' = "handle_result"
                      /\ UNCHANGED exit
    /\ UNCHANGED <<config, argv, disk, args, md_results, loaded, stdout, result_file,
                   writes, workdir, call>>

result_path_none(parsed_args) == PyNone

\* os.path.join(args.working_space, 'result.json'), or None
result_path(parsed_args) ==
    IF Truthy(parsed_args.working_space)
    THEN PyStr(parsed_args.working_space.s \o "/result.json")
    ELSE PyNone

\* handle_result(result, args.result, result_path); return result
Finish ==
    /\ pc = "handle_result"
    /\ \E makedirs \in BOOLEAN, open \in BOOLEAN :
          LET out == handle_result(result, args.result, result_path(args), makedirs, open)
          IN  /\ HandleResultEffects(out)
              /\ exit' = IF out.exc # "none" THEN Raised(out.exc) ELSE Returned
    /\ pc' = "done"
    /\ UNCHANGED <<config, algorithm, argv, disk, args, md_results, result, calls,
                   loaded, workdir, call>>

Next ==
    \/ ParseArgs
    \/ WorkingSpace
    \/ CheckMetadata
    \/ Processing
    \/ Finish

Spec == Init /\ [][Next]_vars

-----------------------------------------------------------------------------
(* Direct calls of the internal functions, one per behaviour, as the unit
   tests make them: the call and its outcome are recorded in call. *)

Codes == {PyNone, PyInt(0), PyInt(-1), PyInt(-2), PyInt(7)}
Messages == {PyNone, PyStr(""), PyStr("boom"), PyStr("x")}
ParamErrors == {PyNone, PyStr(""), PyStr("boom"), PyInt(0)}

ParamCodes == {PyInt(0), PyInt(-1), PyInt(5)}
TransformerParams ==
    {EmptyDict, PyDict([check_md |-> EmptyDict])}
    \cup {PyDict([code |-> c]) : c \in ParamCodes}
    \cup {PyDict([error |-> e]) : e \in ParamErrors}
    \cup {PyDict([code |-> c, error |-> e]) : c \in ParamCodes, e \in ParamErrors}

MetadataNeeded ==
    {Absent, PyNone, PyBool(TRUE), PyBool(FALSE), PyInt(0), PyInt(1),
     PyChars(<<>>),
     PyChars(<<"t", "r", "u", "e">>),
     PyChars(<<"T", "r", "u", "e">>),
     PyChars(<<" ", "T", "R", "U", "E", "\n">>),
     PyChars(<<"f", "a", "l", "s", "e">>),
     PyChars(<<"F", "a", "l", "s", "e">>),
     PyChars(<<"n", "o">>),
     PyChars(<<" ">>)}

ResultTypes ==
    {PyNone,
     PyChars(<<>>),
     PyChars(PRINT),
     PyChars(FILE),
     PyChars(ALL),
     PyChars(PRINT \o <<",">> \o FILE),
     PyChars(<<" ">> \o FILE \o <<" ">>),
     PyChars(FILE \o <<",", " ">> \o PRINT),
     PyChars(PRINT \o FILE),
     PyChars(<<"n", "o", "n", "e">>),
     PyChars(ALL \o <<",">>),
     PyChars(<<"A", "L", "L">>)}

ResultPaths == {PyNone, PyStr(""), PyStr("output/result.json"), PyStr("result.json")}

Results ==
    {EmptyDict,
     PyInt(0),
     handle_error(PyInt(-1), PyStr("No metadata paths were specified.")),
     PyDict([files |-> PyList(<<PyStr("a.tif"), PyNone>>), ok |-> PyBool(TRUE)])}

UnitInit ==
    /\ pc = "unit"
    /\ config = Absent
    /\ argv = Absent
    /\ disk = [p \in Paths |-> "missing"]
    /\ algorithm = Absent
    /\ args = Absent
    /\ md_results = Absent
    /\ result = EmptyDict
    /\ calls = <<>>
    /\ loaded = <<>>
    /\ stdout = <<>>
    /\ result_file = Absent
    /\ writes = 0
    /\ exit = Running
    /\ workdir = "unknown"
    /\ call = Idle

CallHandleError ==
    /\ call = Idle
    /\ \E code \in Codes, message \in Messages :
          call' = [fn |-> "handle_error", code |-> code, message |-> message,
                   out |-> handle_error(code, message)]
    /\ UNCHANGED runVars

CallLoadMetadata ==
    /\ call = Idle
    /\ \E p \in Paths, kind \in DiskKinds :
          call' = [fn |-> "load_metadata", path |-> p, kind |-> kind,
                   out |-> load_metadata(p, kind)]
    /\ UNCHANGED runVars

CallLoadMetadataFiles ==
    /\ call = Idle
    /\ \E files \in SeqsUpTo(MetadataItems, MaxMetadata), d \in [Paths -> DiskKinds] :
          call' = [fn |-> "load_metadata_files", files |-> files, disk |-> d,
                   out |-> load_metadata_files(files, d)]
    /\ UNCHANGED runVars

CallCheckParamsResultError ==
    /\ call = Idle
    /\ \E transformer_params \in TransformerParams :
          call' = [fn |-> "check_params_result_error", params |-> transformer_params,
                   out |-> check_params_result_error(transformer_params)]
    /\ UNCHANGED runVars

CallCheckMetadataNeeded ==
    /\ call = Idle
    /\ \E needed \in MetadataNeeded :
          call' = [fn |-> "check_metadata_needed", needed |-> needed,
                   out |-> check_metadata_needed(needed)]
    /\ UNCHANGED runVars

CallHandleResult ==
    /\ call = Idle
    /\ \E r \in Results, types \in ResultTypes, path \in ResultPaths,
          makedirs \in BOOLEAN, open \in BOOLEAN :
          call' = [fn |-> "handle_result", result |-> r, types |-> types, path |-> path,
                   makedirs |-> makedirs, open |-> open,
                   out |-> handle_result(r, types, path, makedirs, open)]
    /\ UNCHANGED runVars

\* The moments a camera took a picture at: 15 January 2020, at one of three
\* hours, its clock with or without a known UTC offset of one hour
CaptureHours == {9, 10, 11}
Capture(hour, aware) == datetime(2020, 1, 15, hour, 0, 0, aware, IF aware THEN 60 ELSE 0)

\* DateTimeOriginal as the EXIF standard writes it, "YYYY:MM:DD HH:MM:SS", and
\* with the date written with dashes
ExifText(dt) ==
    Pad4(dt.year) \o <<":">> \o Pad2(dt.month) \o <<":">> \o Pad2(dt.day) \o <<" ">>
    \o Pad2(dt.hour) \o <<":">> \o Pad2(dt.minute) \o <<":">> \o Pad2(dt.second)
DashText(dt) ==
    Pad4(dt.year) \o <<"-">> \o Pad2(dt.month) \o <<"-">> \o Pad2(dt.day) \o <<" ">>
    \o Pad2(dt.hour) \o <<":">> \o Pad2(dt.minute) \o <<":">> \o Pad2(dt.second)

\* OffsetTimeOriginal: "+01:00", and the blank value of an unknown offset
OffsetText == <<"+", "0", "1", ":", "0", "0">>
BlankOffset == <<" ", " ", " ", ":", " ", " ">>
BlankStamp == <<" ", " ", " ", " ", ":", " ", " ", ":", " ", " ", " ",
                " ", " ", ":", " ", " ", ":", " ", " ">>

\* The Exif tags of a picture taken at dt
Photo(dt, standard, blank_offset) ==
    LET stamp == PyBytes(IF standard THEN ExifText(dt) ELSE DashText(dt))
        offset == PyBytes(IF dt.aware THEN OffsetText ELSE BlankOffset)
    IN  ExifFile(IF dt.aware \/ blank_offset
                 THEN [tag \in {EXIF_ORIGIN_TIMESTAMP, EXIF_ORIGIN_TIMESTAMP_OFFSET} |->
                          IF tag = EXIF_ORIGIN_TIMESTAMP THEN stamp ELSE offset]
                 ELSE [tag \in {EXIF_ORIGIN_TIMESTAMP} |-> stamp])

\* What piexif.load can find at a path
Photos ==
    {Photo(Capture(hour, aware), standard, blank_offset) :
        hour \in CaptureHours, aware \in BOOLEAN, standard \in BOOLEAN,
        blank_offset \in BOOLEAN}
ImagesWithoutStamp ==
    {Unreadable, ExifFile(EmptyMap),
     ExifFile(EXIF_ORIGIN_TIMESTAMP :> PyBytes(BlankStamp)),
     ExifFile(EXIF_ORIGIN_TIMESTAMP :> PyBytes(<<"\\xff">>)),
     ExifFile(EXIF_ORIGIN_TIMESTAMP_OFFSET :> PyBytes(OffsetText))}
ExifFiles == Photos \cup ImagesWithoutStamp

\* The timestamp arguments: none, the empty text, a date, the ISO text of a
\* moment, and a text that is no timestamp
Timestamps ==
    {PyNone, PyChars(<<>>), PyChars(SubSeq(isoformat(Capture(10, FALSE)), 1, 10)),
     PyChars(<<"j", "u", "n", "k">>)}
    \cup {PyChars(isoformat(Capture(hour, aware))) : hour \in CaptureHours, aware \in BOOLEAN}

CallGetFirstTimestamp ==
    /\ call = Idle
    /\ \E file \in ExifFiles, timestamp \in Timestamps, py311 \in PythonVersions :
          call' = [fn |-> "get_first_timestamp", file |-> file, timestamp |-> timestamp,
                   py311 |-> py311, out |-> get_first_timestamp(file, timestamp, py311)]
    /\ UNCHANGED runVars

\* Metadata records as load_metadata_files hands them over: without a
\* timestamp, with one (bare, or under 'content' and 'pipeline'), and with a
\* null one
ObservedFirst == PyChars(isoformat(Capture(9, FALSE)))
ObservedLast == PyChars(isoformat(Capture(11, FALSE)))
MetadataRecords ==
    {PyDict([source |-> PyStr("md.json")]),
     PyDict([observationTimeStamp |-> ObservedFirst, season |-> PyStr("S1")]),
     PyDict([content |-> PyDict([pipeline |->
                PyDict([observationTimeStamp |-> ObservedLast,
                        studyName |-> PyStr("E1")])])]),
     PyDict([observationTimeStamp |-> PyNone])}

\* The entries of args.file_list when the caller passes paths: a name that
\* starts with '-', and the paths of pictures and of a file without EXIF data
DashName == <<"-", "x">>
FileEntry(name, image) == [obj |-> "str", name |-> name, image |-> image]
FileEntries ==
    {FileEntry(DashName, Photo(Capture(9, FALSE), FALSE, FALSE)),
     FileEntry(<<"a">>, Photo(Capture(10, FALSE), FALSE, FALSE)),
     FileEntry(<<"b">>, Photo(Capture(9, TRUE), FALSE, FALSE)),
     FileEntry(<<"c">>, Photo(Capture(9, FALSE), TRUE, FALSE)),
     FileEntry(<<"d">>, Unreadable)}

\* The longest file_list handed over
MaxFiles == 2

CallGetTransformerParams ==
    /\ call = Idle
    /\ \E metadata \in SeqsUpTo(MetadataRecords, MaxMetadata),
          files \in {PyNone} \cup {PyList(q) : q \in SeqsUpTo(FileEntries, MaxFiles)},
          py311 \in PythonVersions :
          LET parsed_args == [file_list |-> files, working_space |-> PyStr("output")]
              md == parse_metadata_loop(metadata, 1,
                        <<PyNone, PyStr("Season Unknown"), PyStr("Experiment Unknown"), <<>>>>)
          IN  call' = [fn |-> "get_transformer_params", metadata |-> metadata,
                       file_list |-> files, py311 |-> py311,
                       consulted |->
                           get_transformer_params_files(parsed_args, md[1], py311).consulted,
                       out |-> get_transformer_params(parsed_args, metadata, py311)]
    /\ UNCHANGED runVars

\* What an environment's methods do when perform_processing is handed an
\* instance of a class derived from Environment; a method it lacks is Absent.
GoodParams == PyDict([check_md |-> EmptyDict, transformer_md |-> PyList(<<>>),
                      full_md |-> PyList(<<>>)])
Environments ==
    [get_transformer_params : {Absent, Ok(GoodParams), Ok(PyNone),
                               Ok(PyDict([code |-> PyInt(-7)]))},
     retrieve_files : {Absent, Ok(PyNone),
                       Ok(PyTuple(<<PyInt(-5), PyStr("no files")>>)),
                       Raise("RuntimeError")}]

\* What check_continue can return: a code, a code with a message, a code
\* alone in a tuple, no code (a string, an empty tuple), or None
CheckContinueResults ==
    {Absent, Raise("RuntimeError"), Ok(PyNone), Ok(PyStr("fine")), Ok(PyTuple(<<>>)),
     Ok(PyInt(-1)), Ok(PyInt(0)), Ok(PyInt(1)),
     Ok(PyTuple(<<PyInt(-2), PyStr("not ready")>>)),
     Ok(PyTuple(<<PyInt(-3)>>)),
     Ok(PyTuple(<<PyInt(0), PyStr("get files")>>)),
     Ok(PyTuple(<<PyInt(2), PyStr("go on")>>))}

CallPerformProcessing ==
    /\ call = Idle
    /\ \E environment_instance \in Environments,
          check_continue \in CheckContinueResults,
          perform_process \in {Absent, Ok(PyDict([files |-> PyList(<<>>)])),
                               Raise("RuntimeError")} :
          LET algorithm_instance == [check_continue |-> check_continue,
                                     perform_process |-> perform_process]
          IN  call' = [fn |-> "perform_processing",
                       environment_instance |-> environment_instance,
                       algorithm_instance |-> algorithm_instance,
                       out |-> perform_processing(environment_instance, algorithm_instance)]
    /\ UNCHANGED runVars

UnitNext ==
    \/ CallHandleError
    \/ CallLoadMetadata
    \/ CallLoadMetadataFiles
    \/ CallCheckParamsResultError
    \/ CallCheckMetadataNeeded
    \/ CallHandleResult
    \/ CallGetFirstTimestamp
    \/ CallGetTransformerParams
    \/ CallPerformProcessing

UnitSpec == UnitInit /\ [][UnitNext]_vars

-----------------------------------------------------------------------------
(* Geometry: agpypeline/geoimage.py, geometries.py and lasfile.py.           *)
(* GDAL/OGR/OSR, liblas, PDAL and the gdal_translate and pdal tools are the  *)
(* environment: a call into them is given its answer as an argument, drawn   *)
(* from the answers the library can give.  The module never enables GDAL's   *)
(* exceptions, so a failing library call answers None or an error status.    *)

\* A float; numpy.nan is a float that equals nothing, itself included
PyFloat(v) == [t |-> "float", v |-> v, nan |-> FALSE]
nan == [t |-> "float", v |-> 0, nan |-> TRUE]

\* a == b on floats
FloatEq(a, b) == ~a.nan /\ ~b.nan /\ a.v = b.v

\* min(a, b) and max(a, b) as Python computes them: b unless a < b (a > b)
Min(a, b) == IF a < b THEN a ELSE b
Max(a, b) == IF a > b THEN a ELSE b

\* int(v) of an int or of a string of digits; anything else raises ValueError
\* (TypeError for None)
int(v) ==
    CASE v.t = "int" -> Ok(v)
      [] IsChars(v) /\ v.c # <<>> /\ (\A k \in 1..Len(v.c) : IsDigit(v.c[k]))
            -> Ok(PyInt(ValueOfDigits(v.c, 0)))
      [] v.t = "None" -> Raise("TypeError")
      [] OTHER -> Raise("ValueError")

\* The EPSG codes the installed PROJ database knows
KnownEPSG == {4326, 3857, 26913}

\* osr.SpatialReference().ImportFromEPSG(code) == ogr.OGRERR_NONE
ImportFromEPSG(code) == code \in KnownEPSG

\* An osr.SpatialReference that imported an EPSG code
SpatialReference(code) == [t |-> "srs", epsg |-> code]

\* ref_sys.GetAttrValue("AUTHORITY", 0) and ("AUTHORITY", 1)
AuthorityName(ref_sys) == PyStr("EPSG")
AuthorityCode(ref_sys) == PyChars(DigitsOf(ref_sys.epsg))

\* A point of a ring: ring.AddPoint(x, y)
Point(x, y) == <<x, y>>

\* ogr.Geometry(ogr.wkbPolygon) with one ring added, no spatial reference yet
Polygon(ring) == [t |-> "geometry", name |-> "POLYGON", ring |-> ring, srs |-> PyNone]

\* poly.AssignSpatialReference(ref_sys)
AssignSpatialReference(poly, ref_sys) == [poly EXCEPT !.srs = ref_sys]

\* geometry_to_geojson: the GeoJSON text is kept as its syntax tree.  The
\* 'crs' member is present when the geometry has a spatial reference, or when
\* both alternates are given.
geometry_to_geojson(geom, alt_coord_type, alt_coord_code) ==
    LET ref_sys == geom.srs
        crs == IF ~Truthy(ref_sys)
               THEN IF Truthy(alt_coord_type) /\ Truthy(alt_coord_code)
                    THEN [type |-> alt_coord_type, code |-> alt_coord_code]
                    ELSE Absent
               ELSE [type |-> AuthorityName(ref_sys), code |-> AuthorityCode(ref_sys)]
    IN  [t |-> "geojson", type |-> geom.name, coordinates |-> geom.ring, crs |-> crs]

\* What gdal.Open finds at a path: nothing it can read, or a raster with
\* its geotransform, its size and the authority code of its projection
\* (PyNone when the raster has no coordinate system).
MissingFile == [kind |-> "missing"]
Raster(ulx, xres, uly, yres, xsize, ysize, epsg) ==
    [kind |-> "raster", ulx |-> ulx, xres |-> xres, uly |-> uly, yres |-> yres,
     RasterXSize |-> xsize, RasterYSize |-> ysize, epsg |-> epsg]

\* image_get_geobounds: [min_y, max_y, min_x, max_x], or four nan when
\* gdal.Open answers None (src.GetGeoTransform() then raises, and is caught)
image_get_geobounds(file) ==
    IF file.kind = "missing"
    THEN <<nan, nan, nan, nan>>
    ELSE LET lrx == file.ulx + (file.RasterXSize * file.xres)
             lry == file.uly + (file.RasterYSize * file.yres)
         IN  <<PyFloat(Min(file.uly, lry)), PyFloat(Max(file.uly, lry)),
               PyFloat(Min(file.ulx, lrx)), PyFloat(Max(file.ulx, lrx))>>

\* get_epsg: the authority code as a string, None when there is none or
\* when the file cannot be opened
get_epsg(file) ==
    IF file.kind = "missing" THEN PyNone
    ELSE IF file.epsg = PyNone THEN PyNone
    ELSE PyChars(DigitsOf(file.epsg.i))

\* The ring of get_image_bounds_json, from bounds = [min_y, max_y, min_x, max_x]
image_bounds_ring(bounds) ==
    <<Point(bounds[3], bounds[2]),   \* Upper left
      Point(bounds[4], bounds[2]),   \* Upper right
      Point(bounds[4], bounds[1]),   \* lower right
      Point(bounds[3], bounds[1]),   \* lower left
      Point(bounds[3], bounds[2])>>  \* Closing the polygon

\* Whether a ring has a nan coordinate
HasNan(ring) == \E k \in 1..Len(ring) : ring[k][1].nan \/ ring[k][2].nan

\* The outcome of a boundary extraction: ring is the ring that was built
\* (empty when none was), log the levels of the messages logged
Extent(exc, ret, ring, log) == [exc |-> exc, ret |-> ret, ring |-> ring, log |-> log]

\* The tail shared by the extraction functions that build the polygon
\* themselves: int(epsg), ImportFromEPSG, geometry_to_geojson.  json.loads of
\* the exported text of a ring with nan coordinates either accepts the NaN
\* tokens or raises; export_nan is which.
polygon_to_extent(ring, epsg, log, export_nan) ==
    LET code == int(epsg)
    IN  IF code.exc # "none" THEN Extent(code.exc, PyNone, ring, log)
        ELSE IF ImportFromEPSG(code.ret.i)
        THEN IF HasNan(ring) /\ ~export_nan
             THEN Extent("ValueError", PyNone, ring, log)
             ELSE Extent("none",
                         geometry_to_geojson(
                             AssignSpatialReference(Polygon(ring), SpatialReference(code.ret.i)),
                             PyNone, PyNone),
                         ring, log)
        ELSE Extent("none", PyNone, ring, log \o <<"error">>)

get_image_bounds_json_default_first(file, default_epsg, export_nan) ==
    LET bounds == image_get_geobounds(file)
        epsg == get_epsg(file)
    IN  IF FloatEq(bounds[1], nan) THEN Extent("none", PyNone, <<>>, <<>>)
        ELSE IF ~Truthy(default_epsg) /\ epsg = PyNone
        THEN Extent("none", PyNone, <<>>, <<"warning">>)
        ELSE polygon_to_extent(image_bounds_ring(bounds),
                               IF Truthy(default_epsg) THEN default_epsg ELSE epsg,
                               <<>>, export_nan)

\* get_image_bounds_json.  bounds[0] == np.nan compares with nan.
get_image_bounds_json(file, default_epsg, export_nan) ==
    LET bounds == image_get_geobounds(file)
        epsg == get_epsg(file)
    IN  IF FloatEq(bounds[1], nan) THEN Extent("none", PyNone, <<>>, <<>>)
        ELSE IF epsg = PyNone /\ ~Truthy(default_epsg)
        THEN Extent("none", PyNone, <<>>, <<"warning">>)
        ELSE polygon_to_extent(image_bounds_ring(bounds),
                               IF epsg = PyNone THEN default_epsg ELSE epsg,
                               <<>>, export_nan)

\* polygon_from_ring without the check of ImportFromEPSG's status
polygon_from_ring_unchecked(ring, epsg) ==
    IF epsg # PyNone
    THEN AssignSpatialReference(Polygon(ring), SpatialReference(epsg.i))
    ELSE Polygon(ring)

\* geometries.polygon_from_ring: None when an EPSG code is given and cannot
\* be imported
polygon_from_ring(ring, epsg) ==
    IF epsg # PyNone
    THEN IF ImportFromEPSG(epsg.i)
         THEN AssignSpatialReference(Polygon(ring), SpatialReference(epsg.i))
         ELSE PyNone
    ELSE Polygon(ring)

\* sub in s, and s.split(sep), on strings kept as sequences of characters
Contains(sub, c) ==
    \E k \in 0..(Len(c) - Len(sub)) : SubSeq(c, k + 1, k + Len(sub)) = sub

RECURSIVE Split(_, _, _)
Split(c, sep, piece) ==
    IF c = <<>> THEN <<piece>>
    ELSE IF Head(c) = sep THEN <<piece>> \o Split(Tail(c), sep, <<>>)
         ELSE Split(Tail(c), sep, Append(piece, Head(c)))

EPSG == <<"E", "P", "S", "G">>
NATIVE == <<"n", "a", "t", "i", "v", "e">>

\* What `pdal info <file>` answers: a non-zero exit status (missing or
\* unreadable file), output that is not JSON, or the statistics, of which
\* the keys of stats.bbox (in order) and the native bounding box are kept.
PdalFails == [kind |-> "fails"]
PdalGarbage == [kind |-> "garbage"]
PdalInfo(keys, minx, maxx, miny, maxy) ==
    [kind |-> "info", keys |-> keys,
     bbox |-> [minx |-> minx, maxx |-> maxx, miny |-> miny, maxy |-> maxy]]

\* The loop of get_las_epsg over the keys; an IndexError of split(':')[1]
\* leaves the loop with the code found so far
RECURSIVE get_las_epsg_loop(_, _)
get_las_epsg_loop(keys, epsg) ==
    IF keys = <<>> THEN epsg
    ELSE IF Contains(EPSG, Head(keys))
         THEN LET pieces == Split(Head(keys), ":", <<>>)
              IN  IF Len(pieces) < 2 THEN epsg
                  ELSE get_las_epsg_loop(Tail(keys), PyChars(pieces[2]))
         ELSE get_las_epsg_loop(Tail(keys), epsg)

\* lasfile.get_las_epsg(file_path, json_result): json_result is PyNone or the
\* statistics already loaded; pdal is what running the tool would answer
get_las_epsg(pdal, json_result) ==
    LET stats == IF json_result # PyNone THEN json_result ELSE pdal
    IN  IF stats.kind = "info" THEN get_las_epsg_loop(stats.keys, PyNone)
        ELSE PyNone

\* The ring of lasfile.get_las_extents
las_extents_ring(bounds) ==
    <<Point(PyFloat(bounds.minx), PyFloat(bounds.maxy)),   \* Upper left
      Point(PyFloat(bounds.maxx), PyFloat(bounds.maxy)),   \* Upper right
      Point(PyFloat(bounds.maxx), PyFloat(bounds.miny)),   \* lower right
      Point(PyFloat(bounds.minx), PyFloat(bounds.miny)),   \* lower left
      Point(PyFloat(bounds.minx), PyFloat(bounds.maxy))>>  \* Closing the polygon

\* lasfile.get_las_extents.  subprocess.run(check=True), json.loads and the
\* subscripts are outside any try.
lasfile_get_las_extents(pdal, default_epsg) ==
    IF pdal.kind = "fails" THEN Extent("CalledProcessError", PyNone, <<>>, <<>>)
    ELSE IF pdal.kind = "garbage" THEN Extent("JSONDecodeError", PyNone, <<>>, <<>>)
    ELSE IF ~(\E k \in 1..Len(pdal.keys) : pdal.keys[k] = NATIVE)
    THEN Extent("KeyError", PyNone, <<>>, <<>>)
    ELSE LET found == get_las_epsg(pdal, pdal)
             epsg == IF found = PyNone THEN default_epsg ELSE found
             ring == las_extents_ring(pdal.bbox)
             code == int(epsg)
         IN  IF found = PyNone /\ default_epsg = PyNone
             THEN Extent("none", PyNone, <<>>, <<"warning">>)
             ELSE IF code.exc # "none" THEN Extent(code.exc, PyNone, ring, <<>>)
             ELSE LET poly == polygon_from_ring(ring, code.ret)
                  IN  IF Truthy(poly)
                      THEN Extent("none", geometry_to_geojson(poly, PyNone, PyNone), ring, <<>>)
                      ELSE Extent("none", PyNone, ring, <<"error">>)

DotLas == <<".", "l", "a", "s">>
DtmJson == <<"_", "d", "t", "m", ".", "j", "s", "o", "n">>

\* What clip_las leaves: the exception, the path of the pipeline description,
\* what is at that path and at out_path afterwards ("absent", the "pipeline"
\* text, or the clipped "las"), and whether the tool wrote its output
Clipped(exc, pdal_dtm, files, out_path, wrote) ==
    [exc |-> exc, pdal_dtm |-> pdal_dtm, pipeline_file |-> files[pdal_dtm],
     output |-> files[out_path], wrote |-> wrote]

\* lasfile.clip_las.  writable tells whether open(pdal_dtm, 'w') succeeds;
\* tool is what `pdal pipeline` does: it "writes" the clipped file named in
\* the pipeline, or it "fails" and writes nothing.  subprocess.call returns
\* the exit status, which is not looked at.
clip_las(out_path, writable, tool) ==
    LET pdal_dtm == Replace(out_path, DotLas, DtmJson)
        names == {out_path, pdal_dtm}
        start == [p \in names |-> "absent"]
        described == [start EXCEPT ![pdal_dtm] = "pipeline"]
        run == IF tool = "writes" THEN [described EXCEPT ![out_path] = "las"]
               ELSE described
        removed == [run EXCEPT ![pdal_dtm] = "absent"]
    IN  IF ~writable THEN Clipped("OSError", pdal_dtm, start, out_path, FALSE)
        ELSE Clipped("none", pdal_dtm, removed, out_path, tool = "writes")

\* What liblas.file.File(file_path, mode='r') finds: nothing it can open
\* (it raises), or a header with min and max ([x, y, z]) and the WKT of its
\* spatial reference, kept as its sequence of tokens ("" parts left out).
LasMissing == [kind |-> "missing"]
LasHeader(min, max, wkt) == [kind |-> "las", min |-> min, max |-> max, wkt |-> wkt]

\* wkt.find(term): the index of the first occurrence, -1 when there is none
Find(wkt, term) ==
    IF \E k \in 1..Len(wkt) : wkt[k] = term
    THEN (CHOOSE k \in 1..Len(wkt) : wkt[k] = term /\ \A j \in 1..(k - 1) : wkt[j] # term) - 1
    ELSE -1

IsNumber(token) == token # <<>> /\ \A k \in 1..Len(token) : IsDigit(token[k])

\* The loop over search_terms_ordered: every term is searched from the start
\* of the WKT, and idx is the index of the last term searched
RECURSIVE find_terms(_, _, _)
find_terms(wkt, terms, idx) ==
    IF terms = <<>> THEN idx
    ELSE LET found == Find(wkt, Head(terms))
         IN  IF found < 0 THEN found ELSE find_terms(wkt, Tail(terms), found)

search_terms_ordered ==
    <<<<"D", "A", "T", "U", "M">>, <<"A", "U", "T", "H", "O", "R", "I", "T", "Y">>,
      <<"\"", "E", "P", "S", "G", "\"">>, <<",">>>>

\* geoimage.get_las_epsg_from_header: re.search(r'\d+', wkt[idx:])[0], the
\* first number at or after idx; None when a term or a number is missing
get_las_epsg_from_header(header) ==
    LET idx == find_terms(header.wkt, search_terms_ordered, -1)
        numbers == {k \in (idx + 1)..Len(header.wkt) : IsNumber(header.wkt[k])}
    IN  IF idx >= 0 /\ numbers # {}
        THEN PyChars(header.wkt[CHOOSE k \in numbers : \A j \in numbers : k <= j])
        ELSE PyNone

\* The ring of geoimage.get_las_extents, from header.min and header.max
geoimage_las_extents_ring(min_bound, max_bound) ==
    <<Point(PyFloat(min_bound[2]), PyFloat(min_bound[1])),   \* Upper left
      Point(PyFloat(min_bound[2]), PyFloat(max_bound[1])),   \* Upper right
      Point(PyFloat(max_bound[2]), PyFloat(max_bound[1])),   \* lower right
      Point(PyFloat(max_bound[2]), PyFloat(min_bound[1])),   \* lower left
      Point(PyFloat(min_bound[2]), PyFloat(min_bound[1]))>>  \* Closing the polygon

\* geoimage.get_las_extents.  liblas.file.File is outside any try.
geoimage_get_las_extents(las, default_epsg) ==
    IF las.kind = "missing" THEN Extent("LASException", PyNone, <<>>, <<>>)
    ELSE LET found == get_las_epsg_from_header(las)
         IN  IF found = PyNone /\ default_epsg = PyNone
             THEN Extent("none", PyNone, <<>>, <<"warning">>)
             ELSE polygon_to_extent(geoimage_las_extents_ring(las.min, las.max),
                                    IF found = PyNone THEN default_epsg ELSE found,
                                    <<>>, TRUE)

\* A rectangle's ring, in the order OGR exports it
RectRing(minx, maxx, miny, maxy) ==
    <<Point(PyFloat(minx), PyFloat(maxy)), Point(PyFloat(maxx), PyFloat(maxy)),
      Point(PyFloat(maxx), PyFloat(miny)), Point(PyFloat(minx), PyFloat(miny)),
      Point(PyFloat(minx), PyFloat(maxy))>>

\* The GeoJSON text of a polygon without a crs member
GeoJSON(ring) == [t |-> "geojson", type |-> "POLYGON", coordinates |-> ring, crs |-> Absent]

\* ogr.CreateGeometryFromJson(str(bounds)): None for a text that is not
\* GeoJSON (str(None) included)
CreateGeometryFromJson(bounds) ==
    IF bounds.t = "geojson" THEN [Polygon(bounds.coordinates) EXCEPT !.name = bounds.type]
    ELSE PyNone

\* geom.Area(): the shoelace sum over the ring, 0 for a geometry without one
RECURSIVE Shoelace(_, _)
Shoelace(ring, k) ==
    IF k >= Len(ring) THEN 0
    ELSE (ring[k][1].v * ring[k + 1][2].v) - (ring[k + 1][1].v * ring[k][2].v)
         + Shoelace(ring, k + 1)

Abs(n) == IF n < 0 THEN -n ELSE n

Area(geom) == IF geom.name = "POLYGON" THEN Abs(Shoelace(geom.ring, 1)) \div 2 ELSE 0

\* geom.GetEnvelope(): (minX, maxX, minY, maxY), zeros for an empty geometry
MinOf(S) == CHOOSE x \in S : \A y \in S : x <= y
MaxOf(S) == CHOOSE x \in S : \A y \in S : x >= y

GetEnvelope(geom) ==
    IF geom.ring = <<>> THEN <<0, 0, 0, 0>>
    ELSE LET xs == {geom.ring[k][1].v : k \in 1..Len(geom.ring)}
             ys == {geom.ring[k][2].v : k \in 1..Len(geom.ring)}
         IN  <<MinOf(xs), MaxOf(xs), MinOf(ys), MaxOf(ys)>>

\* a.Intersection(b), for the rectangles the model draws its polygons from:
\* an empty geometry when they are apart, a point or a line when they only
\* touch, their common rectangle otherwise.  GEOS may refuse a polygon that
\* is not valid (here: one without area) and the answer is then None; geos
\* tells whether it computes.
Intersection(a, b, geos) ==
    LET ea == GetEnvelope(a)
        eb == GetEnvelope(b)
        minx == Max(ea[1], eb[1])
        maxx == Min(ea[2], eb[2])
        miny == Max(ea[3], eb[3])
        maxy == Min(ea[4], eb[4])
    IN  IF (Area(a) = 0 \/ Area(b) = 0) /\ ~geos THEN PyNone
        ELSE IF a.ring = <<>> \/ b.ring = <<>> \/ minx > maxx \/ miny > maxy
        THEN [Polygon(<<>>) EXCEPT !.srs = a.srs]
        ELSE [Polygon(RectRing(minx, maxx, miny, maxy)) EXCEPT
                 !.srs = a.srs,
                 !.name = IF minx = maxx /\ miny = maxy THEN "POINT"
                          ELSE IF minx = maxx \/ miny = maxy THEN "LINESTRING"
                          ELSE "POLYGON"]

\* A float that is the quotient of two areas
Quotient(num, den) == [t |-> "float", num |-> num, den |-> den]
Zero == Quotient(0, 1)

\* The outcome of calculate_overlap_percent: its value and the levels logged
Overlap(ret, log) == [exc |-> "none", ret |-> ret, log |-> log]

\* intersection.Area() / check_poly.Area(): the division by a zero area
\* raises ZeroDivisionError, which the except clause of
\* calculate_overlap_percent turns into a warning and 0.0
overlap_quotient_uncaught(intersection, check_poly) ==
    IF Area(check_poly) = 0
    THEN [exc |-> "ZeroDivisionError", ret |-> PyNone, log |-> <<>>]
    ELSE Overlap(Quotient(Area(intersection), Area(check_poly)), <<>>)

overlap_quotient(intersection, check_poly) ==
    IF Area(check_poly) = 0
    THEN Overlap(Zero, <<"warning">>)
    ELSE Overlap(Quotient(Area(intersection), Area(check_poly)), <<>>)

calculate_overlap_percent_by_bounding_box(check_bounds, bounding_box, geos) ==
    LET check_poly == CreateGeometryFromJson(check_bounds)
        bbox_poly == CreateGeometryFromJson(bounding_box)
        intersection == Intersection(bbox_poly, check_poly, geos)
    IN  IF Truthy(check_poly) /\ Truthy(bbox_poly)
        THEN IF Truthy(intersection)
             THEN overlap_quotient(intersection, bbox_poly)
             ELSE Overlap(Zero, <<>>)
        ELSE Overlap(Zero, <<>>)

\* geometries.calculate_overlap_percent (geoimage.calculate_overlap_percent
\* is the same code)
calculate_overlap_percent(check_bounds, bounding_box, geos) ==
    LET check_poly == CreateGeometryFromJson(check_bounds)
        bbox_poly == CreateGeometryFromJson(bounding_box)
        intersection == Intersection(bbox_poly, check_poly, geos)
    IN  IF Truthy(check_poly) /\ Truthy(bbox_poly)
        THEN IF Truthy(intersection)
             THEN overlap_quotient(intersection, check_poly)
             ELSE Overlap(Zero, <<>>)
        ELSE Overlap(Zero, <<>>)

\* geometry_to_tuples / geojson_to_tuples: (min Y, max Y, min X, max X)
geometry_to_tuples(geom) ==
    LET current_env == GetEnvelope(geom)
    IN  <<current_env[3], current_env[4], current_env[1], current_env[2]>>

geojson_to_tuples(bounding_box) == geometry_to_tuples(CreateGeometryFromJson(bounding_box))

\* The outcome of a clip: the gdal_translate commands run, and what is at
\* the output path afterwards: "absent", or a raster with only zero pixels
\* ("zeros") or with some non-zero pixel ("pixels")
Clip(exc, ret, cmds, file, log) ==
    [exc |-> exc, ret |-> ret, cmds |-> cmds, file |-> file, log |-> log]

TempTif == PyStr("temp.tif")
ndarray == [t |-> "ndarray"]

\* geoimage.clip_raster.  before is what is at the output path when the call
\* starts; tool is what gdal_translate does: "fails" (it writes nothing), or
\* it writes a raster of "zeros" or with "pixels".  gdal.Open of a path
\* without a raster answers None, and None.ReadAsArray() raises.
clip_raster(rast_path, bounds, out_path_arg, compress, before, tool) ==
    LET out_path == IF ~Truthy(out_path_arg) THEN TempTif ELSE out_path_arg
        cmd == [projwin |-> <<bounds[3], bounds[2], bounds[4], bounds[1]>>,
                lzw |-> ~compress, src |-> rast_path, dst |-> out_path]
        written == IF tool = "fails" THEN before ELSE tool
    IN  IF written = "absent"
        THEN Clip("AttributeError", PyNone, <<cmd>>, written, <<>>)
        ELSE IF written = "pixels"
        THEN Clip("none", ndarray, <<cmd>>,
                  IF out_path = TempTif THEN "absent" ELSE written, <<>>)
        ELSE Clip("none", PyNone, <<cmd>>, "absent", <<>>)

\* clip_raster_intersection from the intersection on (lines 120-134)
clip_to_intersection_with_any_area(file_path, file_poly, plot_poly, out_file, geos, before, tool) ==
    LET intersection == Intersection(file_poly, plot_poly, geos)
    IN  IF ~Truthy(intersection)
        THEN Clip("none", PyNone, <<>>, before, <<"info">>)
        ELSE LET multi_polygon == [intersection EXCEPT !.name = "MULTIPOLYGON"]
                 tuples == geojson_to_tuples(geometry_to_geojson(multi_polygon, PyNone, PyNone))
             IN  clip_raster(file_path, tuples, out_file, TRUE, before, tool)

clip_to_intersection(file_path, file_poly, plot_poly, out_file, geos, before, tool) ==
    LET intersection == Intersection(file_poly, plot_poly, geos)
    IN  IF ~Truthy(intersection) \/ Area(intersection) = 0
        THEN Clip("none", PyNone, <<>>, before, <<"info">>)
        ELSE LET multi_polygon == [intersection EXCEPT !.name = "MULTIPOLYGON"]
                 tuples == geojson_to_tuples(geometry_to_geojson(multi_polygon, PyNone, PyNone))
             IN  clip_raster(file_path, tuples, out_file, TRUE, before, tool)

clip_raster_intersection_returns_none(file_path, file_bounds, plot_bounds, out_file, geos, before, tool) ==
    LET file_poly == CreateGeometryFromJson(file_bounds)
        plot_poly == CreateGeometryFromJson(plot_bounds)
        clip == clip_to_intersection(file_path, file_poly, plot_poly, out_file, geos, before, tool)
    IN  IF ~Truthy(file_poly) \/ ~Truthy(plot_poly)
        THEN Clip("none", PyNone, <<>>, before, <<"error">>)
        ELSE IF clip.exc # "none" THEN [clip EXCEPT !.log = <<"exception">>]
        ELSE clip

\* geoimage.clip_raster_intersection.  An exception is logged and raised
\* again.
clip_raster_intersection(file_path, file_bounds, plot_bounds, out_file, geos, before, tool) ==
    LET file_poly == CreateGeometryFromJson(file_bounds)
        plot_poly == CreateGeometryFromJson(plot_bounds)
        clip == clip_to_intersection(file_path, file_poly, plot_poly, out_file, geos, before, tool)
    IN  IF ~Truthy(file_poly) \/ ~Truthy(plot_poly)
        THEN Clip("RuntimeError", PyNone, <<>>, before, <<"error", "exception">>)
        ELSE IF clip.exc # "none" THEN [clip EXCEPT !.log = <<"exception">>]
        ELSE clip

\* An ogr.Geometry as convert_geometry sees it: obj tells the objects
\* apart ("geometry" is the one passed in, "clone" what geometry.Clone()
\* made), axis is the axis mapping strategy of its spatial reference.
GeometryObject(obj, ring, srs) ==
    [t |-> "geometry", obj |-> obj, name |-> "POLYGON", ring |-> ring, srs |-> srs]

AxisSpatialReference(code, axis) == [t |-> "srs", epsg |-> code, axis |-> axis]

\* A point carried from one spatial reference to another by
\* Geometry.Transform; the projection itself is PROJ's
Projected(point, from, to) == <<point[1], point[2], from, to>>

\* What the library answers during a conversion:
\*   GetSpatialReference  "ok" or "raises"
\*   IsSame               TRUE, FALSE or "raises"
\*   transformation       "ok", "none" (CreateCoordinateTransformation
\*                        answers None) or "raises"
\*   Clone                "ok" or "none"
\*   Transform            "ok", "status" (an error status is returned) or
\*                        "raises"
LibraryAnswers ==
    [GetSpatialReference : {"ok", "raises"},
     IsSame : {"same", "different", "raises"},
     transformation : {"ok", "none", "raises"},
     Clone : {"ok", "none"},
     Transform : {"ok", "status", "raises"}]

\* The outcome of convert_geometry: what it returns, the geometry passed in
\* as the call leaves it, and the levels logged
Converted(ret, geometry, log) ==
    [exc |-> "none", ret |-> ret, geometry |-> geometry, log |-> log]

Caught(geometry) == Converted(geometry, geometry, <<"warning", "warning">>)

\* From the IsSame test on: lines 73-78 of geometries.py, 156-161 of geoimage.py
convert_geometry_transform_always(geometry, new_spatialreference, answers) ==
    LET geom_sr == geometry.srs
        new_geom == [geometry EXCEPT !.obj = "clone"]
        ring == [k \in 1..Len(geometry.ring) |->
                     Projected(geometry.ring[k], geom_sr.epsg, new_spatialreference.epsg)]
    IN  IF ~Truthy(geom_sr) THEN Converted(geometry, geometry, <<>>)
        ELSE IF answers.IsSame = "raises" THEN Caught(geometry)
        ELSE IF answers.transformation = "raises" THEN Caught(geometry)
        ELSE IF answers.Clone = "none" THEN Converted(geometry, geometry, <<>>)
        ELSE IF answers.transformation = "none" THEN Caught(geometry)
        ELSE IF answers.Transform = "raises" THEN Caught(geometry)
        ELSE IF answers.Transform = "status" THEN Converted(new_geom, geometry, <<>>)
        ELSE Converted([new_geom EXCEPT !.ring = ring, !.srs = new_spatialreference],
                       geometry, <<>>)

convert_geometry_transform(geometry, new_spatialreference, answers) ==
    LET geom_sr == geometry.srs
        new_geom == [geometry EXCEPT !.obj = "clone"]
        ring == [k \in 1..Len(geometry.ring) |->
                     Projected(geometry.ring[k], geom_sr.epsg, new_spatialreference.epsg)]
    IN  IF ~Truthy(geom_sr) THEN Converted(geometry, geometry, <<>>)
        ELSE IF answers.IsSame = "raises" THEN Caught(geometry)
        ELSE IF answers.IsSame = "same" THEN Converted(geometry, geometry, <<>>)
        ELSE IF answers.transformation = "raises" THEN Caught(geometry)
        ELSE IF answers.Clone = "none" THEN Converted(geometry, geometry, <<>>)
        \* new_geom.Transform(None) raises
        ELSE IF answers.transformation = "none" THEN Caught(geometry)
        ELSE IF answers.Transform = "raises" THEN Caught(geometry)
        \* the status Transform returns is not looked at
        ELSE IF answers.Transform = "status" THEN Converted(new_geom, geometry, <<>>)
        ELSE Converted([new_geom EXCEPT !.ring = ring, !.srs = new_spatialreference],
                       geometry, <<>>)

\* geoimage.convert_geometry
geoimage_convert_geometry(geometry, new_spatialreference, answers) ==
    IF ~Truthy(new_spatialreference) \/ ~Truthy(geometry)
    THEN Converted(geometry, geometry, <<>>)
    ELSE IF answers.GetSpatialReference = "raises" THEN Caught(geometry)
    ELSE convert_geometry_transform(geometry, new_spatialreference, answers)

\* geometries.convert_geometry.  gdal_major is int(osgeo.__version__[0]):
\* from GDAL 3 on, the axis mapping strategy of the geometry's own spatial
\* reference is set, which raises AttributeError when it has none.
convert_geometry(geometry, new_spatialreference, gdal_major, answers) ==
    IF ~Truthy(new_spatialreference) \/ ~Truthy(geometry)
    THEN Converted(geometry, geometry, <<>>)
    ELSE IF answers.GetSpatialReference = "raises" THEN Caught(geometry)
    ELSE IF gdal_major >= 3
    THEN IF geometry.srs = PyNone THEN Caught(geometry)
         ELSE convert_geometry_transform(
                  [geometry EXCEPT !.srs.axis = "OAMS_TRADITIONAL_GIS_ORDER"],
                  new_spatialreference, answers)
    ELSE convert_geometry_transform(geometry, new_spatialreference, answers)

-----------------------------------------------------------------------------
(* Direct calls of the geometry functions *)

\* Coordinates of the polygons handed to the functions run over 0..MaxCoord
MaxCoord == 2

Coords == 0..MaxCoord

\* The rectangles on the grid, those without area included
Rectangles ==
    {RectRing(b[1], b[2], b[3], b[4]) :
        b \in {c \in Coords \X Coords \X Coords \X Coords : c[1] <= c[2] /\ c[3] <= c[4]}}

\* The boundaries a caller passes: None, a text that is not GeoJSON, or the
\* GeoJSON of a rectangle
Boundaries == {PyNone, PyStr("not json")} \cup {GeoJSON(ring) : ring \in Rectangles}

ImageFiles ==
    {MissingFile}
    \cup {Raster(ulx, 1, 3, yres, 2, ysize, epsg) :
            ulx \in {0, 2}, yres \in {-1, 1}, ysize \in {1, 2},
            epsg \in {PyNone, PyInt(26913)}}

DefaultEPSGs == {PyNone, PyInt(0), PyInt(4326), PyInt(99999)}

EPSG4326 == EPSG \o <<":", "4", "3", "2", "6">>

BboxKeys == {<<EPSG4326, NATIVE>>, <<NATIVE>>, <<NATIVE, EPSG4326>>, <<EPSG, NATIVE>>,
             <<EPSG4326, EPSG, NATIVE>>, <<EPSG4326>>, <<>>}

PdalAnswers ==
    {PdalFails, PdalGarbage}
    \cup {PdalInfo(keys, b[1], b[2], b[3], b[4]) :
            keys \in BboxKeys, b \in {<<0, 2, 1, 3>>, <<1, 1, 0, 2>>}}

\* WKT of a header: none, that of EPSG:4326 (shortened), one whose first
\* number after the first comma is an EPSG code, one without any number
\* after it
WktNone == <<>>
Wkt4326 ==
    <<<<"G", "E", "O", "G", "C", "S">>, <<"W", "G", "S">>, <<"8", "4">>, <<",">>,
      <<"D", "A", "T", "U", "M">>, <<"W", "G", "S", "_">>, <<"1", "9", "8", "4">>, <<",">>,
      <<"A", "U", "T", "H", "O", "R", "I", "T", "Y">>, <<"\"", "E", "P", "S", "G", "\"">>,
      <<",">>, <<"4", "3", "2", "6">>>>
WktCodeFirst ==
    <<<<"L", "O", "C", "A", "L">>, <<",">>, <<"2", "6", "9", "1", "3">>,
      <<"D", "A", "T", "U", "M">>,
      <<"A", "U", "T", "H", "O", "R", "I", "T", "Y">>, <<"\"", "E", "P", "S", "G", "\"">>>>
WktNoNumber ==
    <<<<"D", "A", "T", "U", "M">>,
      <<"A", "U", "T", "H", "O", "R", "I", "T", "Y">>, <<"\"", "E", "P", "S", "G", "\"">>,
      <<",">>>>

LasFiles ==
    {LasMissing}
    \cup {LasHeader(b[1], b[2], wkt) :
            b \in {<<<<0, 1, 5>>, <<2, 3, 6>>>>, <<<<1, 0, 0>>, <<1, 2, 0>>>>},
            wkt \in {WktNone, Wkt4326, WktCodeFirst, WktNoNumber}}

SpatialReferences ==
    {PyNone} \cup {AxisSpatialReference(code, "OAMS_AUTHORITY_COMPLIANT") : code \in {4326, 3857}}

Geometries ==
    {PyNone} \cup {GeometryObject("geometry", RectRing(0, 2, 0, 1), srs) : srs \in SpatialReferences}

\* IsSame answers "same" only for two spatial references of the same code
SameIsPossible(geometry, new_spatialreference, answers) ==
    (answers.IsSame = "same" /\ Truthy(geometry) /\ Truthy(new_spatialreference)
        /\ Truthy(geometry.srs))
      => geometry.srs.epsg = new_spatialreference.epsg

GeoInit ==
    /\ pc = "geo"
    /\ config = Absent
    /\ argv = Absent
    /\ disk = [p \in Paths |-> "missing"]
    /\ algorithm = Absent
    /\ args = Absent
    /\ md_results = Absent
    /\ result = EmptyDict
    /\ calls = <<>>
    /\ loaded = <<>>
    /\ stdout = <<>>
    /\ result_file = Absent
    /\ writes = 0
    /\ exit = Running
    /\ workdir = "unknown"
    /\ call = Idle

CallImageGetGeobounds ==
    /\ call = Idle
    /\ \E file \in ImageFiles :
          call' = [fn |-> "image_get_geobounds", file |-> file,
                   out |-> Ok(PyList(image_get_geobounds(file)))]
    /\ UNCHANGED runVars

CallGetEpsg ==
    /\ call = Idle
    /\ \E file \in ImageFiles :
          call' = [fn |-> "get_epsg", file |-> file, out |-> Ok(get_epsg(file))]
    /\ UNCHANGED runVars

CallGetImageBoundsJson ==
    /\ call = Idle
    /\ \E file \in ImageFiles, default_epsg \in DefaultEPSGs, export_nan \in BOOLEAN :
          call' = [fn |-> "get_image_bounds_json", file |-> file,
                   default_epsg |-> default_epsg, export_nan |-> export_nan,
                   out |-> get_image_bounds_json(file, default_epsg, export_nan)]
    /\ UNCHANGED runVars

CallGetLasEpsg ==
    /\ call = Idle
    /\ \E pdal \in PdalAnswers, loaded_stats \in BOOLEAN :
          call' = [fn |-> "get_las_epsg", pdal |-> pdal, loaded_stats |-> loaded_stats,
                   out |-> Ok(get_las_epsg(pdal, IF loaded_stats /\ pdal.kind = "info"
                                                 THEN pdal ELSE PyNone))]
    /\ UNCHANGED runVars

CallLasfileGetLasExtents ==
    /\ call = Idle
    /\ \E pdal \in PdalAnswers, default_epsg \in DefaultEPSGs :
          call' = [fn |-> "lasfile.get_las_extents", pdal |-> pdal,
                   default_epsg |-> default_epsg,
                   out |-> lasfile_get_las_extents(pdal, default_epsg)]
    /\ UNCHANGED runVars

CallGeoimageGetLasExtents ==
    /\ call = Idle
    /\ \E las \in LasFiles, default_epsg \in DefaultEPSGs :
          call' = [fn |-> "geoimage.get_las_extents", las |-> las,
                   default_epsg |-> default_epsg,
                   out |-> geoimage_get_las_extents(las, default_epsg)]
    /\ UNCHANGED runVars

CallCalculateOverlapPercent ==
    /\ call = Idle
    /\ \E check_bounds \in Boundaries, bounding_box \in Boundaries, geos \in BOOLEAN :
          call' = [fn |-> "calculate_overlap_percent", check_bounds |-> check_bounds,
                   bounding_box |-> bounding_box, geos |-> geos,
                   out |-> calculate_overlap_percent(check_bounds, bounding_box, geos)]
    /\ UNCHANGED runVars

CallClipRasterIntersection ==
    /\ call = Idle
    /\ \E file_bounds \in Boundaries, plot_bounds \in Boundaries, geos \in BOOLEAN,
          before \in {"absent", "zeros", "pixels"}, tool \in {"fails", "zeros", "pixels"} :
          call' = [fn |-> "clip_raster_intersection", file_bounds |-> file_bounds,
                   plot_bounds |-> plot_bounds, geos |-> geos, before |-> before,
                   tool |-> tool,
                   out |-> clip_raster_intersection(PyStr("image.tif"), file_bounds, plot_bounds,
                                                    PyStr("clipped.tif"), geos, before, tool)]
    /\ UNCHANGED runVars

CallConvertGeometry ==
    /\ call = Idle
    /\ \E geometry \in Geometries, new_spatialreference \in SpatialReferences,
          gdal_major \in {2, 3}, answers \in LibraryAnswers :
          /\ SameIsPossible(geometry, new_spatialreference, answers)
          /\ call' = [fn |-> "geometries.convert_geometry", geometry |-> geometry,
                      new_spatialreference |-> new_spatialreference,
                   gdal_major |-> gdal_major, answers |-> answers,
                   out |-> convert_geometry(geometry, new_spatialreference, gdal_major, answers)]
    /\ UNCHANGED runVars

CallGeoimageConvertGeometry ==
    /\ call = Idle
    /\ \E geometry \in Geometries, new_spatialreference \in SpatialReferences,
          answers \in LibraryAnswers :
          /\ SameIsPossible(geometry, new_spatialreference, answers)
          /\ call' = [fn |-> "geoimage.convert_geometry", geometry |-> geometry,
                   new_spatialreference |-> new_spatialreference,
                   gdal_major |-> 0, answers |-> answers,
                   out |-> geoimage_convert_geometry(geometry, new_spatialreference, answers)]
    /\ UNCHANGED runVars

\* The out_path arguments of a clip_raster call: the default, the empty
\* string, the name the function uses for its own temporary file, another name
OutPaths == {PyNone, PyStr(""), TempTif, PyStr("clipped.tif")}

CallClipRaster ==
    /\ call = Idle
    /\ \E out_path \in OutPaths, compress \in BOOLEAN,
          before \in {"absent", "zeros", "pixels"}, tool \in {"fails", "zeros", "pixels"} :
          call' = [fn |-> "clip_raster", out_path |-> out_path, compress |-> compress,
                   before |-> before, tool |-> tool,
                   out |-> clip_raster(PyStr("image.tif"), <<0, 1, 0, 1>>, out_path,
                                       compress, before, tool)]
    /\ UNCHANGED runVars

\* The out_path arguments of a clip_las call: "c.las", "c.laz", "c", and
\* ".las.las"
LasOutPaths ==
    {<<"c">> \o DotLas, <<"c", ".", "l", "a", "z">>, <<"c">>, DotLas \o DotLas}

CallClipLas ==
    /\ call = Idle
    /\ \E out_path \in LasOutPaths, writable \in BOOLEAN, tool \in {"fails", "writes"} :
          call' = [fn |-> "clip_las", out_path |-> out_path, writable |-> writable,
                   tool |-> tool, out |-> clip_las(out_path, writable, tool)]
    /\ UNCHANGED runVars

\* The rings handed to polygon_from_ring: one without points, or a rectangle's
Rings == {<<>>} \cup Rectangles

CallPolygonFromRing ==
    /\ call = Idle
    /\ \E ring \in Rings, epsg \in DefaultEPSGs \cup {PyInt(3857)} :
          call' = [fn |-> "polygon_from_ring", ring |-> ring, epsg |-> epsg,
                   out |-> Ok(polygon_from_ring(ring, epsg))]
    /\ UNCHANGED runVars

GeoNext ==
    \/ CallLasfileGetLasExtents
    \/ CallGeoimageGetLasExtents
    \/ CallGetLasEpsg
    \/ CallImageGetGeobounds
    \/ CallGetEpsg
    \/ CallGetImageBoundsJson
    \/ CallCalculateOverlapPercent
    \/ CallClipRasterIntersection
    \/ CallClipRaster
    \/ CallClipLas
    \/ CallPolygonFromRing
    \/ CallConvertGeometry
    \/ CallGeoimageConvertGeometry

GeoSpec == GeoInit /\ [][GeoNext]_vars

-----------------------------------------------------------------------------
(* Properties *)

InSeq(x, q) == \E k \in 1..Len(q) : q[k] = x

IsErrorPair(v) == v.t = "dict" /\ HasKey(v, "error") /\ HasKey(v, "code")

DefaultMessage(code) ==
    PyStr("An error has occurred with error code (" \o ToString(code) \o ")")

\* C5: handle_error returns a dict with exactly the keys 'error' and 'code';
\* a code of None becomes -1 and any other code, 0 included, is kept; an
\* empty or missing message becomes the default message built from the code
\* after defaulting, and a non-empty message is kept.
C5_HandleErrorShape ==
    call.fn = "handle_error" =>
        /\ call.out.t = "dict"
        /\ DOMAIN call.out.d = {"error", "code"}
        /\ call.out.d.code = (IF call.code = PyNone THEN PyInt(-1) ELSE call.code)
        /\ call.out.d.error =
              (IF call.message \in {PyNone, PyStr("")}
               THEN DefaultMessage(IF call.code = PyNone THEN -1 ELSE call.code.i)
               ELSE call.message)

C5_Witness ==
    /\ call.fn = "handle_error"
    /\ call.code = PyNone
    /\ call.message = PyStr("")
    /\ call.out = PyDict([error |-> PyStr("An error has occurred with error code (-1)"),
                          code |-> PyInt(-1)])

\* C6: check_params_result_error returns None exactly when the parameters
\* have no 'code' key; with a 'code' key, whatever its value, it returns an
\* error dict with code -104 whose message is the 'error' value when that is
\* present and non-empty, the message naming the returned code when 'error'
\* is absent, and handle_error's default message when 'error' is empty.
C6_CheckParamsResultError ==
    call.fn = "check_params_result_error" =>
        LET params == call.params.d
        IN  /\ (call.out = PyNone) <=> ("code" \notin DOMAIN params)
            /\ "code" \in DOMAIN params =>
                  /\ DOMAIN call.out.d = {"error", "code"}
                  /\ call.out.d.code = PyInt(-104)
                  /\ call.out.d.error =
                        (IF "error" \notin DOMAIN params
                         THEN PyStr("Error returned from get_transformer_params with code: "
                                    \o ToString(params.code.i))
                         ELSE IF params.error \in {PyNone, PyStr(""), PyInt(0)}
                              THEN DefaultMessage(-104)
                              ELSE params.error)

C6_Witness ==
    /\ call.fn = "check_params_result_error"
    /\ call.params = PyDict([code |-> PyInt(0)])
    /\ call.out = PyDict([error |-> PyStr("Error returned from get_transformer_params with code: 0"),
                          code |-> PyInt(-104)])

\* The first entry of a load_metadata_files call that cannot be accessed or
\* cannot be loaded (0 when every entry loads).
Accessible(k) == call.disk[call.files[k].path] # "missing"
Loads(k) == HasKey(load_metadata(call.files[k].path, call.disk[call.files[k].path]),
                   "metadata")
FirstFailing ==
    IF \A k \in 1..Len(call.files) : Loads(k) THEN 0
    ELSE CHOOSE k \in 1..Len(call.files) :
            ~Loads(k) /\ \A m \in 1..(k - 1) : Loads(m)

\* C3: load_metadata_files never raises and reports a failure as a value: at
\* the first listed file that cannot be accessed or loaded it returns a dict
\* with 'error' and without 'metadata', with code -2 for an inaccessible
\* file and -3 for an unloadable one, and loads no file after that one;
\* load_metadata returns exactly one of the keys 'metadata' and 'error'.
C3_FailuresAreValues ==
    /\ call.fn = "load_metadata" =>
          \/ DOMAIN call.out.d = {"metadata"}
          \/ DOMAIN call.out.d = {"error"}
    /\ (call.fn = "load_metadata_files" /\ FirstFailing > 0) =>
          /\ call.out.exc = "none"
          /\ HasKey(call.out.ret, "error")
          /\ ~HasKey(call.out.ret, "metadata")
          /\ call.out.ret.d.code =
                (IF Accessible(FirstFailing) THEN PyInt(-3) ELSE PyInt(-2))
          /\ \A k \in 1..Len(call.out.loaded) : k <= FirstFailing

\* C4: when every listed metadata file loads, load_metadata_files returns
\* {'metadata': L} and nothing else, L holding one entry per input file in
\* the order given (the empty list for no file).
C4_MetadataInOrder ==
    (call.fn = "load_metadata_files" /\ FirstFailing = 0) =>
        /\ call.out.exc = "none"
        /\ DOMAIN call.out.ret.d = {"metadata"}
        /\ call.out.ret.d.metadata.t = "list"
        /\ Len(call.out.ret.d.metadata.e) = Len(call.files)
        /\ \A k \in 1..Len(call.files) :
              call.out.ret.d.metadata.e[k] =
                 load_metadata(call.files[k].path,
                               call.disk[call.files[k].path]).d.metadata

C4_Witness ==
    /\ call.fn = "load_metadata_files"
    /\ Len(call.files) = 2
    /\ call.files[1].path = YamlPath
    /\ call.files[2].path = JsonPath
    /\ call.disk[YamlPath] = "yaml_map"
    /\ call.out.exc = "none"
    /\ HasKey(call.out.ret, "metadata")
    /\ Len(call.out.ret.d.metadata.e) = 2
    /\ call.out.ret.d.metadata.e[1].d.source = PyStr("md.yaml")

\* The comma separated result types, stripped
TypesAsked == IF call.types = PyNone THEN {} ELSE type_parts(call.types)
PrintAsked == PRINT \in TypesAsked \/ ALL \in TypesAsked
FileAsked == (FILE \in TypesAsked \/ ALL \in TypesAsked)
             /\ call.path \notin {PyNone, PyStr("")}

IsTrueString(v) == IsChars(v) /\ Strip(Lower(v.c)) = <<"t", "r", "u", "e">>
C9_MetadataNeededFalse ==
    call.fn = "check_metadata_needed" =>
        /\ call.needed \in {Absent, PyNone, PyBool(FALSE), PyChars(<<>>),
                            PyChars(<<"f", "a", "l", "s", "e">>),
                            PyChars(<<"F", "a", "l", "s", "e">>)}
              => call.out = FALSE
        /\ call.out = TRUE =>
              \/ IsTrueString(call.needed)
              \/ ~IsChars(call.needed) /\ Truthy(call.needed)

-----------------------------------------------------------------------------
(* Properties of a run of do_work *)

\* Every file named on the command line can be opened by argparse.
CommandLineOK ==
    /\ \A k \in 1..Len(argv.metadata) : disk[argv.metadata[k]] # "missing"
    /\ \A k \in 1..Len(argv.file_list) : argv.file_list[k].there

\* The first metadata file of the command line that is gone when loaded
\* is reached: every file before it loads.
MetadataVanishes ==
    \E k \in 1..Len(argv.metadata) :
        /\ disk[argv.metadata[k]] = "vanishes"
        /\ \A m \in 1..(k - 1) : disk[argv.metadata[m]] = "json_map"

Invoked(method) == InSeq(method, calls)

\* Whether the run's --result asks for the result file
RunTypes == IF args.result = PyNone THEN {} ELSE type_parts(args.result)
RunFileAsked == FILE \in RunTypes \/ ALL \in RunTypes

CheckContinueCode ==
    IF algorithm.check_continue.ret.t = "tuple"
    THEN algorithm.check_continue.ret.e[1] ELSE algorithm.check_continue.ret

C2_AlwaysOneResultFile ==
    (pc = "done" /\ exit.how = "returned" /\ Truthy(args.working_space)) =>
        /\ writes = 1
        /\ result_file = JsonDump(result)

\* C2 as amended: result.json is written only by the handle_result call that
\* ends the run, at most once; a run that returns from there has written it
\* exactly when 'file' or 'all' is among the --result types (all is the
\* default) and the working space is not empty, and then it reads back as
\* the run's result; with --result print, with --result without a value,
\* and on the early return for a working space that cannot be created, no
\* result.json is written.
C2_ResultFileWhenAsked ==
    /\ writes \in {0, 1}
    /\ (writes = 0) <=> (result_file = Absent)
    /\ pc # "done" => writes = 0
    /\ (pc = "done" /\ exit.how = "returned") =>
          /\ (writes = 1) <=>
                (RunFileAsked /\ Truthy(args.working_space) /\ workdir = "present")
          /\ writes = 1 => JsonLoad(result_file) = result

C2_Witness ==
    /\ pc = "done"
    /\ exit = Returned
    /\ argv.result = Absent
    /\ writes = 1
    /\ workdir = "present"
    /\ Invoked("perform_process")
    /\ JsonLoad(result_file) = algorithm.perform_process.ret

\* C8 as claimed: when the configuration requires metadata and no --metadata
\* is given, the result do_work returns is the "No metadata paths were
\* specified." error with code -1, and neither get_transformer_params nor a
\* method of the algorithm is invoked.
NoMetadataError == PyDict([error |-> PyStr("No metadata paths were specified."),
                           code |-> PyInt(-1)])
C8_AlwaysNoMetadataError ==
    (exit.how = "returned" /\ check_metadata_needed(config) /\ argv.metadata = <<>>) =>
        /\ result = NoMetadataError
        /\ calls = <<>>

\* C8 as amended: when the configuration requires metadata and no --metadata
\* is given, no method of the environment or of the algorithm is ever
\* invoked and no metadata file is loaded; the result do_work returns is the
\* "No metadata paths were specified." error with code -1 when the working
\* space is in place, and the -10 error when it could not be created.
C8_NoMetadataStopsRun ==
    (check_metadata_needed(config) /\ argv.metadata = <<>>) =>
        /\ calls = <<>>
        /\ loaded = <<>>
        /\ algorithm = Absent
        /\ pc # "processing"
        /\ exit.how = "returned" =>
              result = IF workdir = "absent"
                       THEN handle_error(PyInt(-10),
                                PyStr("Error while creating working space path \"output\""))
                       ELSE NoMetadataError
        /\ (pc = "handle_result" \/ (pc = "done" /\ exit.how = "raised")) =>
              result = NoMetadataError

C8_Witness ==
    /\ pc = "done"
    /\ exit = Returned
    /\ config = PyBool(TRUE)
    /\ argv.metadata = <<>>
    /\ argv.file_list # <<>>
    /\ result = NoMetadataError
    /\ calls = <<>>

\* C10: a command line without input files, with or without --metadata, is
\* rejected by argument parsing with "the following arguments are required:
\* file_list" and a non-zero status, before any metadata file is loaded and
\* before any method of the algorithm is called.
C10_NoFilesRejected ==
    (pc # "parse_args" /\ argv.file_list = <<>> /\ CommandLineOK) =>
        /\ pc = "done"
        /\ exit.how = "SystemExit"
        /\ exit.status # 0
        /\ exit.exc = "the following arguments are required: file_list"
        /\ loaded = <<>>
        /\ calls = <<>>

-----------------------------------------------------------------------------
(* Boundary extraction *)

IsNanList(v) == v.t = "list" /\ \A k \in 1..Len(v.e) : v.e[k].nan

\* C11: get_image_bounds_json on a file gdal cannot open, for which
\* image_get_geobounds yields the nan list, returns None without raising,
\* whatever default_epsg is, and builds no ring from nan coordinates.
C11_MissingFileGivesNone ==
    (call.fn = "get_image_bounds_json" /\ IsNanList(PyList(image_get_geobounds(call.file))))
      => /\ call.out.exc = "none"
         /\ call.out.ret = PyNone
         /\ call.out.ring = <<>>

\* The calls of the extraction functions on a file that is missing or
\* unreadable, or for which the external tool fails
ExtractionFailure ==
    \/ call.fn \in {"get_epsg", "image_get_geobounds", "get_image_bounds_json"}
          /\ call.file = MissingFile
    \/ call.fn \in {"get_las_epsg", "lasfile.get_las_extents"}
          /\ call.pdal \in {PdalFails, PdalGarbage}
    \/ call.fn = "geoimage.get_las_extents" /\ call.las = LasMissing

\* C12: on a missing or unreadable file, or when the external tool fails,
\* get_epsg, image_get_geobounds, get_image_bounds_json, get_las_epsg and
\* both get_las_extents raise nothing and return None or the nan list.
C12_ExtractionNeverRaises ==
    ExtractionFailure
      => /\ call.out.exc = "none"
         /\ call.out.ret = PyNone \/ IsNanList(call.out.ret)

\* The ring the extraction functions are to build from an extent
ExtentRing(minx, maxx, miny, maxy) ==
    <<Point(PyFloat(minx), PyFloat(maxy)),    \* upper left
      Point(PyFloat(maxx), PyFloat(maxy)),    \* upper right
      Point(PyFloat(maxx), PyFloat(miny)),    \* lower right
      Point(PyFloat(minx), PyFloat(miny)),    \* lower left
      Point(PyFloat(minx), PyFloat(maxy))>>   \* closing

\* The right and lower edge of a raster
RasterLrx(file) == file.ulx + file.RasterXSize * file.xres
RasterLry(file) == file.uly + file.RasterYSize * file.yres

\* C13: get_image_bounds_json, lasfile.get_las_extents and
\* geoimage.get_las_extents build their ring from the file's extent in the
\* order upper-left, upper-right, lower-right, lower-left, upper-left, with
\* x the first coordinate of every point.
C13_RingOrder ==
    /\ (call.fn = "get_image_bounds_json" /\ call.file # MissingFile
        /\ call.out.ring # <<>>)
          => call.out.ring =
                ExtentRing(Min(call.file.ulx, RasterLrx(call.file)),
                           Max(call.file.ulx, RasterLrx(call.file)),
                           Min(call.file.uly, RasterLry(call.file)),
                           Max(call.file.uly, RasterLry(call.file)))
    /\ (call.fn = "lasfile.get_las_extents" /\ call.out.ring # <<>>)
          => call.out.ring =
                ExtentRing(call.pdal.bbox.minx, call.pdal.bbox.maxx,
                           call.pdal.bbox.miny, call.pdal.bbox.maxy)
    /\ (call.fn = "geoimage.get_las_extents" /\ call.out.ring # <<>>)
          => call.out.ring =
                ExtentRing(call.las.min[1], call.las.max[1],
                           call.las.min[2], call.las.max[2])

\* The calls of boundary extraction on a file that has an extent but no
\* coordinate reference system, and on one that has its own
ExtentWithoutCrs ==
    \/ call.fn = "get_image_bounds_json" /\ call.file # MissingFile /\ call.file.epsg = PyNone
    \/ call.fn = "lasfile.get_las_extents" /\ call.pdal.kind = "info"
          /\ call.pdal.keys = <<NATIVE>>
    \/ call.fn = "geoimage.get_las_extents" /\ call.las # LasMissing /\ call.las.wkt = WktNone

ExtentWithCrs ==
    \/ call.fn = "get_image_bounds_json" /\ call.file # MissingFile /\ call.file.epsg # PyNone
    \/ call.fn = "lasfile.get_las_extents" /\ call.pdal.kind = "info"
          /\ call.pdal.keys \in {<<EPSG4326, NATIVE>>, <<NATIVE, EPSG4326>>}
    \/ call.fn = "geoimage.get_las_extents" /\ call.las # LasMissing
          /\ call.las.wkt \in {Wkt4326, WktCodeFirst}

\* What the same call returns when no default is supplied
WithoutDefault ==
    CASE call.fn = "get_image_bounds_json"
            -> get_image_bounds_json(call.file, PyNone, call.export_nan)
      [] call.fn = "lasfile.get_las_extents" -> lasfile_get_las_extents(call.pdal, PyNone)
      [] call.fn = "geoimage.get_las_extents" -> geoimage_get_las_extents(call.las, PyNone)

\* The result is GeoJSON tagged with the EPSG code
TaggedWith(out, code) ==
    /\ out.exc = "none"
    /\ out.ret.t = "geojson"
    /\ out.ret.crs = [type |-> PyStr("EPSG"), code |-> PyChars(DigitsOf(code))]

\* C14 as stated: for a file with an extent but no coordinate reference
\* system the boundary GeoJSON tagged with the default EPSG is returned
\* whenever a default is supplied, and None (with a warning) exactly when
\* none is supplied; a file's own EPSG makes the default ignored.
C14_DefaultUsedWheneverSupplied ==
    /\ ExtentWithoutCrs
          => /\ call.default_epsg # PyNone => TaggedWith(call.out, call.default_epsg.i)
             /\ call.default_epsg = PyNone
                   => (call.out.exc = "none" /\ call.out.ret = PyNone
                       /\ call.out.log = <<"warning">>)
    /\ ExtentWithCrs => call.out = WithoutDefault

\* Whether the function takes default_epsg as supplied: get_image_bounds_json
\* tests its truth, the get_las_extents test it against None
Supplied ==
    IF call.fn = "get_image_bounds_json" THEN call.default_epsg \notin {PyNone, PyInt(0)}
    ELSE call.default_epsg # PyNone

\* C14 (amended): for a file with an extent but no coordinate reference
\* system, the boundary GeoJSON tagged with the default EPSG is returned when
\* a default is supplied and can be imported; None is returned with a warning
\* when none is supplied, and with an error logged when the default cannot be
\* imported; nothing is raised.  A file's own EPSG makes the default ignored.
C14_DefaultUsedWhenImportable ==
    /\ ExtentWithoutCrs
          => /\ call.out.exc = "none"
             /\ (Supplied /\ call.default_epsg.i \in {4326, 3857, 26913})
                   => TaggedWith(call.out, call.default_epsg.i)
             /\ (Supplied /\ call.default_epsg.i \notin {4326, 3857, 26913})
                   => (call.out.ret = PyNone /\ call.out.log = <<"error">>)
             /\ ~Supplied => (call.out.ret = PyNone /\ call.out.log = <<"warning">>)
    /\ ExtentWithCrs => call.out = WithoutDefault
    /\ (call.fn = "get_image_bounds_json" /\ ExtentWithCrs)
          => TaggedWith(call.out, call.file.epsg.i)

C14_Witness ==
    /\ call.fn = "get_image_bounds_json"
    /\ ExtentWithoutCrs
    /\ call.default_epsg = PyInt(4326)
    /\ TaggedWith(call.out, 4326)

-----------------------------------------------------------------------------
(* Coordinate transformation *)

IsConvert == call.fn \in {"geometries.convert_geometry", "geoimage.convert_geometry"}

\* The value returned is the very geometry passed in, with the coordinates
\* it had
ReturnsOriginal ==
    IF call.geometry = PyNone THEN call.out.ret = PyNone
    ELSE /\ call.out.ret.obj = "geometry"
         /\ call.out.ret.ring = call.geometry.ring

\* The geometry passed in keeps its coordinates
OriginalUntouched ==
    call.geometry # PyNone => call.out.geometry.ring = call.geometry.ring

\* The call has no reason to reproject: no target, no geometry, a geometry
\* without spatial reference, or one that IsSame finds the same as the target
NothingToConvert ==
    \/ call.new_spatialreference = PyNone
    \/ call.geometry = PyNone
    \/ call.geometry.srs = PyNone
    \/ call.answers.IsSame = "same"

ConversionFails ==
    /\ ~NothingToConvert
    /\ \/ call.answers.GetSpatialReference = "raises"
       \/ call.answers.IsSame = "raises"
       \/ call.answers.transformation \in {"none", "raises"}
       \/ call.answers.Clone = "none"
       \/ call.answers.Transform \in {"status", "raises"}

\* C16: convert_geometry never raises; when obtaining the spatial reference,
\* creating the transformation, cloning or transforming fails, the original
\* geometry object is returned, and the coordinates of the geometry passed
\* in are never modified.
C16_FailureReturnsOriginal ==
    IsConvert
      => /\ call.out.exc = "none"
         /\ OriginalUntouched
         /\ ConversionFails => ReturnsOriginal

-----------------------------------------------------------------------------
(* Intersection, overlap and clipping *)

IsPolygonText(bounds) == bounds.t = "geojson"

\* The corners of the rectangle a boundary text describes: the first point
\* of its ring is (minx, maxy), the third (maxx, miny)
MinX(bounds) == bounds.coordinates[1][1].v
MaxY(bounds) == bounds.coordinates[1][2].v
MaxX(bounds) == bounds.coordinates[3][1].v
MinY(bounds) == bounds.coordinates[3][2].v

RectArea(bounds) == (MaxX(bounds) - MinX(bounds)) * (MaxY(bounds) - MinY(bounds))

\* The area two rectangles have in common
CommonArea(a, b) ==
    LET width == Min(MaxX(a), MaxX(b)) - Max(MinX(a), MinX(b))
        height == Min(MaxY(a), MaxY(b)) - Max(MinY(a), MinY(b))
    IN  IF width <= 0 \/ height <= 0 THEN 0 ELSE width * height

\* C17: clip_raster_intersection raises RuntimeError when the file boundary
\* or the plot boundary is null or cannot be parsed into a polygon; the
\* clipping tool is then not invoked and nothing is created at out_file.
C17_InvalidPolygonRaises ==
    (call.fn = "clip_raster_intersection"
        /\ (~IsPolygonText(call.file_bounds) \/ ~IsPolygonText(call.plot_bounds)))
      => /\ call.out.exc = "RuntimeError"
         /\ call.out.cmds = <<>>
         /\ call.out.file = call.before

C17_Witness ==
    /\ call.fn = "clip_raster_intersection"
    /\ IsPolygonText(call.file_bounds)
    /\ call.plot_bounds = PyNone
    /\ call.before = "absent"
    /\ call.tool = "pixels"
    /\ call.out.exc = "RuntimeError"
    /\ call.out.file = "absent"

\* C18: for two polygons that are apart, or whose intersection has no area,
\* clip_raster_intersection returns None without raising, does not invoke
\* the clipping tool and puts no file at out_file.
C18_NoOverlapReturnsNone ==
    (call.fn = "clip_raster_intersection"
        /\ IsPolygonText(call.file_bounds) /\ IsPolygonText(call.plot_bounds)
        /\ CommonArea(call.file_bounds, call.plot_bounds) = 0)
      => /\ call.out.exc = "none"
         /\ call.out.ret = PyNone
         /\ call.out.cmds = <<>>
         /\ call.out.file = call.before

\* Two rectangles with area that share an edge only
C18_Witness ==
    /\ call.fn = "clip_raster_intersection"
    /\ call.file_bounds = GeoJSON(RectRing(0, 1, 0, 2))
    /\ call.plot_bounds = GeoJSON(RectRing(1, 2, 0, 2))
    /\ call.before = "absent"
    /\ call.tool = "pixels"
    /\ call.out.ret = PyNone
    /\ call.out.file = "absent"

IsOverlap == call.fn = "calculate_overlap_percent"

\* The value of a float that is a quotient equals 1.0, 0.0
IsOne(q) == q.den # 0 /\ q.num = q.den
IsZero(q) == q.den # 0 /\ q.num = 0

\* C19 as stated: for any polygon P, those of area zero included,
\* calculate_overlap_percent(P, P) is 1.0.
C19_SelfOverlapIsOne ==
    (IsOverlap /\ IsPolygonText(call.check_bounds)
        /\ call.bounding_box = call.check_bounds)
      => IsOne(call.out.ret)

\* C19 (amended): calculate_overlap_percent(P, P) is 1.0 for every polygon P
\* of non-zero area, and 0.0 for a polygon of area zero.
C19_SelfOverlap ==
    (IsOverlap /\ IsPolygonText(call.check_bounds)
        /\ call.bounding_box = call.check_bounds)
      => /\ call.out.exc = "none"
         /\ RectArea(call.check_bounds) # 0 => IsOne(call.out.ret)
         /\ RectArea(call.check_bounds) = 0 => IsZero(call.out.ret)

C19_Witness ==
    /\ IsOverlap
    /\ call.check_bounds = GeoJSON(RectRing(0, 2, 1, 2))
    /\ call.bounding_box = call.check_bounds
    /\ call.out.ret = Quotient(2, 2)

C21_ClipRasterOutput ==
    (call.fn = "clip_raster" /\ call.out.exc = "none")
      => /\ call.out.file # "absent"
            <=> (call.out.ret # PyNone /\ Truthy(call.out_path))
         /\ call.out.ret = PyNone => call.out.file = "absent"

\* C22: after clip_las returns or raises, the pipeline description file it
\* wrote no longer exists, and the clipped output the tool wrote at out_path
\* still exists, for every out_path.
C22_ClipLasTemporaryFile ==
    call.fn = "clip_las"
      => /\ call.out.pipeline_file = "absent"
         /\ call.out.wrote => call.out.output = "las"

ExifCapture(file) ==
    IF file.kind # "image" \/ EXIF_ORIGIN_TIMESTAMP \notin DOMAIN file.Exif THEN PyNone
    ELSE LET stamp == file.Exif[EXIF_ORIGIN_TIMESTAMP].c
             offset == IF EXIF_ORIGIN_TIMESTAMP_OFFSET \in DOMAIN file.Exif
                       THEN file.Exif[EXIF_ORIGIN_TIMESTAMP_OFFSET].c ELSE <<>>
             date == IF Len(stamp) < 10 THEN stamp
                     ELSE Replace(SubSeq(stamp, 1, 10), <<":">>, <<"-">>)
                          \o SubSeq(stamp, 11, Len(stamp))
             naive == fromisoformat(date, TRUE)
             aware == fromisoformat(date \o offset, TRUE)
         IN  IF aware.exc = "none" THEN aware.ret ELSE naive.ret

\* The moment a timestamp argument names; None for no argument
Moment(timestamp) ==
    IF Truthy(timestamp) THEN fromisoformat(timestamp.c, TRUE).ret ELSE PyNone

IsTimestamp(timestamp) ==
    ~Truthy(timestamp) \/ fromisoformat(timestamp.c, FALSE).exc = "none"

\* C24: get_first_timestamp, given no argument or the text of a timestamp,
\* does not raise whatever the file is, and returns the file's capture
\* timestamp when there is no argument or the file's is the earlier one, the
\* argument's moment when that is the earlier one or the file has no capture
\* timestamp, and None when there is neither.  (Nothing is said here of a
\* file and an argument of which only one has a UTC offset.)
C24_FirstTimestamp ==
    (call.fn = "get_first_timestamp" /\ IsTimestamp(call.timestamp))
      => LET capture == ExifCapture(call.file)
             given == Moment(call.timestamp)
         IN  /\ call.out.exc = "none"
             /\ (capture = PyNone /\ given = PyNone) => ~Truthy(call.out.ret)
             /\ (capture # PyNone /\ given = PyNone)
                  => call.out.ret = PyChars(isoformat(capture))
             /\ (capture = PyNone /\ given # PyNone)
                  => call.out.ret = PyChars(isoformat(given))
             /\ (capture # PyNone /\ given # PyNone /\ capture.aware = given.aware)
                  => call.out.ret = PyChars(isoformat(IF Before(capture, given)
                                                      THEN capture ELSE given))

\* The record a metadata entry is read as: under 'content', then 'pipeline'
Unwrapped(one_metadata) ==
    LET content == IF HasKey(one_metadata, "content") THEN one_metadata.d.content
                   ELSE one_metadata
    IN  IF HasKey(content, "pipeline") THEN content.d.pipeline ELSE content

\* The entries of metadata that carry key, in order
Carrying(metadata, key) ==
    SelectSeq([k \in 1..Len(metadata) |-> Unwrapped(metadata[k])],
              LAMBDA r : HasKey(r, key))

\* The capture timestamps of the files of a list whose names do not start
\* with '-'
ListedCaptures(files) ==
    IF files = PyNone THEN {}
    ELSE {ExifCapture(files.e[k].image) :
            k \in {j \in 1..Len(files.e) : Head(files.e[j].name) # "-"}} \ {PyNone}

Earliest(captures) ==
    CHOOSE first \in captures : \A other \in captures : ~Before(other, first)

IsParams == call.fn = "get_transformer_params"

\* C25: the timestamp of the check parameters is the observationTimeStamp of
\* the last metadata record that carries one, and then no file is consulted;
\* otherwise the earliest capture timestamp among the listed files whose
\* names do not start with '-'; otherwise the current time; it is never
\* None; season and experiment are 'Season Unknown' and 'Experiment Unknown'
\* when no record supplies them.  (Nothing is said here of a record whose
\* observationTimeStamp is null, nor of files of which only some have a UTC
\* offset.)
C25_TimestampPrecedence ==
    IsParams
      => LET stamps == Carrying(call.metadata, "observationTimeStamp")
             captures == ListedCaptures(call.file_list)
             check_md == call.out.ret.d.check_md.d
         IN  /\ call.out.exc = "none"
             /\ check_md.timestamp # PyNone
             /\ (stamps # <<>> /\ stamps[Len(stamps)].d.observationTimeStamp # PyNone)
                  => /\ check_md.timestamp = stamps[Len(stamps)].d.observationTimeStamp
                     /\ call.consulted = <<>>
             /\ (stamps = <<>> /\ captures # {}
                     /\ \A a, b \in captures : a.aware = b.aware)
                  => check_md.timestamp = PyChars(isoformat(Earliest(captures)))
             /\ (stamps = <<>> /\ captures = {}) => check_md.timestamp = NOW
             /\ Carrying(call.metadata, "season") = <<>>
                  => check_md.season = PyStr("Season Unknown")
             /\ Carrying(call.metadata, "studyName") = <<>>
                  => check_md.experiment = PyStr("Experiment Unknown")

Reversed(q) == [k \in 1..Len(q) |-> q[Len(q) + 1 - k]]

\* The timestamp get_transformer_params chooses for the called metadata and
\* interpreter and the given files
ChosenTimestamp(files) ==
    get_transformer_params([file_list |-> PyList(files), working_space |-> PyStr("output")],
                           call.metadata, call.py311).ret.d.check_md.d.timestamp

\* C30: when no metadata record supplies observationTimeStamp, the timestamp
\* get_transformer_params chooses is the same for the files in the opposite
\* order, files with and without a UTC offset mixed included, and the same
\* as without the files that have no capture timestamp.
C30_OrderOfFiles ==
    (IsParams /\ call.file_list # PyNone
        /\ Carrying(call.metadata, "observationTimeStamp") = <<>>)
      => /\ ChosenTimestamp(Reversed(call.file_list.e)) = ChosenTimestamp(call.file_list.e)
         /\ ChosenTimestamp(SelectSeq(call.file_list.e,
                                      LAMBDA f : ExifCapture(f.image) # PyNone))
              = ChosenTimestamp(call.file_list.e)

IsProcessing == call.fn = "perform_processing"

\* perform_processing got as far as the check: get_transformer_params is
\* missing or returned a dict without 'code'
ParamsPassed ==
    LET params == call.environment_instance.get_transformer_params
    IN  params = Absent
        \/ (params.exc = "none" /\ params.ret.t = "dict" /\ ~HasKey(params.ret, "code"))

\* The code check_continue returned: the int, or the first element of the
\* tuple; None when it returned none (or is missing, or raised)
ReturnedCode ==
    LET check == call.algorithm_instance.check_continue
    IN  IF check = Absent \/ check.exc # "none" THEN PyNone
        ELSE IF check.ret.t = "int" THEN check.ret
        ELSE IF check.ret.t = "tuple" /\ Len(check.ret.e) > 0 THEN check.ret.e[1]
        ELSE PyNone

\* The place of a method among the methods invoked, 0 when it was not
Place(method) ==
    IF InSeq(method, call.out.calls)
    THEN CHOOSE k \in 1..Len(call.out.calls) : call.out.calls[k] = method
    ELSE 0

\* C26: when check_continue returns code 0 and the environment defines
\* retrieve_files, retrieve_files is invoked after check_continue and before
\* perform_process; a negative code from retrieve_files is then the result's
\* error and perform_process is not invoked.
C26_RetrieveFilesOnZero ==
    (IsProcessing /\ ParamsPassed /\ ReturnedCode = PyInt(0)
        /\ call.environment_instance.retrieve_files # Absent)
      => /\ Place("retrieve_files") > Place("check_continue")
         /\ Place("perform_process") > 0 => Place("perform_process") > Place("retrieve_files")
         /\ call.environment_instance.retrieve_files
                = Ok(PyTuple(<<PyInt(-5), PyStr("no files")>>))
              => /\ call.out = Processed("none", handle_error(PyInt(-5), PyStr("no files")),
                                         call.out.calls)
                 /\ Place("perform_process") = 0

\* check_continue returned a negative code: perform_process is not invoked
\* and the result holds that code under 'code' and an 'error' entry
NegativeCodeStops ==
    (ReturnedCode # PyNone /\ ReturnedCode.i < 0)
      => /\ Place("perform_process") = 0
         /\ call.out.exc = "none"
         /\ HasKey(call.out.ret, "code") /\ call.out.ret.d.code = ReturnedCode
         /\ HasKey(call.out.ret, "error")

\* perform_process is the last method invoked and its outcome is the outcome
PerformProcessDecides ==
    call.algorithm_instance.perform_process # Absent
      => /\ Place("perform_process") = Len(call.out.calls)
         /\ call.out.exc = call.algorithm_instance.perform_process.exc
         /\ call.out.ret = call.algorithm_instance.perform_process.ret

\* C27 as stated: a negative code from check_continue stops the run with
\* 'code' and 'error' in the result; when check_continue is missing or
\* returns no code (None included) or a positive code, perform_process is
\* invoked and its return value is the result.
C27_NoCodeGoesOn ==
    (IsProcessing /\ ParamsPassed)
      => LET check == call.algorithm_instance.check_continue
         IN  /\ NegativeCodeStops
             /\ (check = Absent
                    \/ (check.exc = "none" /\ (ReturnedCode = PyNone \/ ReturnedCode.i > 0)))
                  => PerformProcessDecides

\* C27 (amended): a negative code from check_continue, alone, with a message
\* or alone in a tuple, stops the run: perform_process is not invoked and the
\* result holds that code under 'code' and an 'error' entry.  When
\* check_continue is missing, or returns a string, an empty tuple, or a
\* positive code, perform_process (when the algorithm has one) is invoked
\* last and its outcome is the outcome.  When check_continue returns None,
\* TypeError leaves perform_processing and perform_process is not invoked.
C27_CheckContinueDecides ==
    (IsProcessing /\ ParamsPassed)
      => LET check == call.algorithm_instance.check_continue
         IN  /\ NegativeCodeStops
             /\ (check = Absent
                    \/ (check.exc = "none" /\ check.ret.t \in {"str", "tuple", "int"}
                          /\ (ReturnedCode = PyNone \/ ReturnedCode.i > 0)))
                  => PerformProcessDecides
             /\ check = Ok(PyNone)
                  => call.out.exc = "TypeError" /\ Place("perform_process") = 0

\* A negative code with a message: the message is kept, an error is added
C27_Witness ==
    /\ IsProcessing
    /\ call.algorithm_instance.check_continue
         = Ok(PyTuple(<<PyInt(-2), PyStr("not ready")>>))
    /\ call.algorithm_instance.perform_process # Absent
    /\ call.environment_instance.get_transformer_params = Ok(GoodParams)
    /\ call.out.calls = <<"get_transformer_params", "check_continue">>
    /\ call.out.ret = PyDict([code |-> PyInt(-2), message |-> PyStr("not ready"),
                              error |-> PyStr("Unknown error returned from check_continue call")])

\* C28: when handle_result is asked to write the result file and making the
\* file's folder fails with OSError, nothing is written to result_file_path,
\* no exception leaves handle_result and the result is returned.
C28_FolderFailureSkipsWrite ==
    (call.fn = "handle_result" /\ FileAsked /\ Truthy(call.path) /\ ~call.makedirs
        /\ Serializable(call.result))
      => /\ call.out.exc = "none"
         /\ call.out.written = <<>>
         /\ call.out.ret = call.result

\* The invocations of one method in a sequence of invoked methods
Invocations(method, invoked) == SelectSeq(invoked, LAMBDA m : m = method)

\* do_work's load_metadata_files returned an error instead of the metadata
MetadataFailed == md_results # Absent /\ ~HasKey(md_results, "metadata")

\* The code the run's check_continue returned, None when it returned none
CheckedCode ==
    LET check == algorithm.check_continue
    IN  IF check = Absent \/ check.exc # "none" THEN PyNone
        ELSE IF check.ret.t = "int" THEN check.ret
        ELSE IF check.ret.t = "tuple" /\ Len(check.ret.e) > 0 THEN check.ret.e[1]
        ELSE PyNone

CheckFailed == CheckedCode # PyNone /\ CheckedCode.i < 0

\* A run of do_work: perform_process is invoked at most once, last, and only
\* after the metadata was loaded, get_transformer_params returned and
\* check_continue returned no negative code; a metadata error ends the run
\* with code -3 and no method invoked; once perform_processing has returned,
\* the result carries check_continue's negative code, or -102 when the
\* algorithm has no perform_process, or is what perform_process returned.
PerformProcessInRun ==
    /\ Len(Invocations("perform_process", calls)) <= 1
    /\ InSeq("perform_process", calls)
         => /\ calls[Len(calls)] = "perform_process"
            /\ calls[1] = "get_transformer_params"
            /\ md_results # Absent /\ HasKey(md_results, "metadata")
            /\ algorithm.perform_process # Absent
            /\ ~CheckFailed
            /\ algorithm.check_continue # Absent
                 => calls = <<"get_transformer_params", "check_continue", "perform_process">>
    /\ MetadataFailed
         => /\ calls = <<>>
            /\ algorithm = Absent
            /\ result = handle_error(PyInt(-3), md_results.d.error)
            /\ result.d.code = PyInt(-3)
    /\ (pc = "handle_result" /\ algorithm # Absent)
         => /\ CheckFailed
                 => /\ ~InSeq("perform_process", calls)
                    /\ HasKey(result, "error")
                    /\ HasKey(result, "code") /\ result.d.code = CheckedCode
            /\ (~CheckFailed /\ algorithm.perform_process = Absent)
                 => /\ ~InSeq("perform_process", calls)
                    /\ HasKey(result, "error")
                    /\ HasKey(result, "code") /\ result.d.code = PyInt(-102)
            /\ (~CheckFailed /\ algorithm.perform_process # Absent)
                 => /\ InSeq("perform_process", calls)
                    /\ result = algorithm.perform_process.ret

\* A call of perform_processing with an environment of any shape: a return
\* of get_transformer_params that is not a dict ends it with code -101, a
\* dict with 'code' with code -104, and perform_process is not invoked;
\* perform_process is invoked at most once and only after the parameters and
\* the check passed; without perform_process the result's code is -102.
PerformProcessInCall ==
    IsProcessing
      => LET params == call.environment_instance.get_transformer_params
             returned == params # Absent /\ params.exc = "none"
         IN  /\ Len(Invocations("perform_process", call.out.calls)) <= 1
             /\ (returned /\ params.ret.t # "dict")
                  => /\ call.out.exc = "none"
                     /\ call.out.ret.d.code = PyInt(-101)
                     /\ call.out.calls = <<"get_transformer_params">>
             /\ (returned /\ params.ret.t = "dict" /\ HasKey(params.ret, "code"))
                  => /\ call.out.exc = "none"
                     /\ call.out.ret.d.code = PyInt(-104)
                     /\ call.out.calls = <<"get_transformer_params">>
             /\ Place("perform_process") > 0
                  => /\ ParamsPassed
                     /\ Place("perform_process") = Len(call.out.calls)
                     /\ ReturnedCode = PyNone \/ ReturnedCode.i >= 0
             /\ (ParamsPassed /\ call.out.exc = "none"
                    /\ call.algorithm_instance.perform_process = Absent
                    /\ (ReturnedCode = PyNone \/ ReturnedCode.i >= 0))
                  => /\ call.out.ret.d.code = PyInt(-102)
                     /\ Place("perform_process") = 0

\* C29: in any run of do_work the algorithm's perform_process is invoked at
\* most once, and only after every earlier phase succeeded: it is not invoked
\* when metadata loading returned an error (code -3), when
\* get_transformer_params returned something other than a dict (code -101) or
\* a dict containing 'code' (code -104); when the algorithm has no
\* perform_process the result is the error with code -102; the error code
\* produced by the failing phase is the code in the final result.
C29_PerformProcessOnceAfterPhases ==
    /\ PerformProcessInRun
    /\ PerformProcessInCall

\* A run in which every phase succeeded: a metadata file was loaded,
\* check_continue returned 0 and perform_process, invoked once and last,
\* gave the result
C29_Witness ==
    /\ pc = "done"
    /\ Len(loaded) > 0
    /\ algorithm # Absent
    /\ algorithm.check_continue = Ok(PyInt(0))
    /\ calls = <<"get_transformer_params", "check_continue", "perform_process">>
    /\ result = PyDict([files |-> PyList(<<>>)])
    /\ exit = Returned

====
